---- MODULE Spec2Model ----
(***************************************************************************)
(* State-machine model of the SRR Farms orders router                      *)
(* (src/src/App.tsx, lines 220-654): order creation from a cart, the       *)
(* stock check and decrement, and the admin status update, together with   *)
(* the collaborators the router calls (cart, products, auth middleware).   *)
(* Every `await` on a database write is a point where other requests       *)
(* interleave, so the order-creation handler is a sequence of steps.       *)
(***************************************************************************)
EXTENDS Integers, Sequences, FiniteSets, TLC

\* ---------------------------------------------------------------- bounds
MaxQty == 2        \* largest quantity of one cart line
MaxAdds == 2       \* number of add-to-cart requests in one behaviour
MaxClock == 2      \* largest value of the millisecond clock
MaxUpdates == 2    \* number of status-update requests in one behaviour
MaxCalls == 2      \* number of auth operations the client calls in one behaviour
MaxRetry == 3      \* largest retryCount apiCall is called with
MaxOrders == 6     \* largest number of orders of a shop whose statistics are read
MaxSubmits == 2    \* number of payment submissions in one behaviour

\* ------------------------------------------------------------ identities
Users == {"u1", "u2"}                 \* accounts of the Users collection
Products == {"p1", "p2"}              \* documents of the Products collection
Reqs == {"r1", "r2"}                  \* POST /api/orders requests
Callers == {"anon", "user", "admin"}  \* who sends a status update
OrderIds == {1, 2}                    \* the :id a status update may name

NoDate == <<>>                        \* an absent Date field
NoText == "none"                      \* an absent string field / body key

Price == [p \in Products |-> IF p = "p1" THEN 500 ELSE 15]
InitStock == [p \in Products |-> IF p = "p1" THEN 2 ELSE 1]

\* -------------------------------------------------------- program values
Shipping == 50
TaxPercent == 5
PaymentInputs == {NoText, "cod", "upi"}
validStatuses == {"pending", "confirmed", "shipped", "delivered", "cancelled"}
\* Bodies of PUT /api/orders/:id/status requests.
StatusBodies ==
  {[status |-> "shipped", trackingNumber |-> "TRK1", estimatedDelivery |-> <<"D1">>],
   [status |-> "delivered", trackingNumber |-> NoText, estimatedDelivery |-> NoDate],
   [status |-> "refunded", trackingNumber |-> NoText, estimatedDelivery |-> NoDate]}
\* Bodies that carry a status and nothing else.
StatusOnlyBodies ==
  {[status |-> st, trackingNumber |-> NoText, estimatedDelivery |-> NoDate] :
     st \in {"confirmed", "cancelled", "refunded"}}
Suffixes == {"A"}

VARIABLES
  stock,     \* Products collection: stock count of each product
  carts,     \* Carts collection: one document per user, or none yet
  orders,    \* Orders collection, in insertion order; the index is the _id
  reqs,      \* the local state of each POST /api/orders request
  now,       \* the server clock (Date.now())
  adds,      \* number of add-to-cart requests served so far
  updates,   \* number of status-update requests served so far
  out,       \* the HTTP exchange of the step just taken (the response, and the
             \* query a listing answers), NoResp if none
  client,    \* the browser: one call of an auth operation through apiCall
  stats,     \* the local state of the GET /admin/stats request being served
  upi,       \* the UPIPayment component: its React state and its request
  app        \* the AppContent component: its React state and the user it reads

vars == <<stock, carts, orders, reqs, now, adds, updates, out, client, stats, upi,
          app>>

\* ---------------------------------------------------------------- helpers
RECURSIVE SumTotals(_)
SumTotals(items) ==
  IF items = <<>> THEN 0 ELSE Head(items).total + SumTotals(Tail(items))

NoCart == [exists |-> FALSE, items |-> <<>>, subtotal |-> 0]

CartLine(p, q) == [product |-> p, quantity |-> q, price |-> Price[p], total |-> Price[p] * q]

LineIndex(items, p) ==
  IF \E i \in 1..Len(items) : items[i].product = p
  THEN CHOOSE i \in 1..Len(items) : items[i].product = p
  ELSE 0

\* Cart.addItem: the line of the product grows, or a new line is appended;
\* the line totals and the subtotal are recomputed on save.
AddItem(cart, p, q) ==
  LET i == LineIndex(cart.items, p)
      items == IF i = 0
               THEN Append(cart.items, CartLine(p, q))
               ELSE [cart.items EXCEPT ![i] = CartLine(p, cart.items[i].quantity + q)]
  IN [exists |-> TRUE, items |-> items, subtotal |-> SumTotals(items)]

\* cart.clearCart(): the document stays, its lines go.
ClearedCart(cart) == [exists |-> TRUE, items |-> <<>>, subtotal |-> 0]

\* .populate('items.product'): each line carries the product document as read.
Populate(items, st) ==
  [i \in 1..Len(items) |->
     [product |-> items[i].product, quantity |-> items[i].quantity,
      price |-> items[i].price, total |-> items[i].total,
      stock |-> st[items[i].product]]]

\* Math.floor in the place of Math.round.
MathFloor(n) == n \div 100

\* Math.round(x) for x = n / 100, n >= 0: the nearest integer, halves upwards.
MathRound(n) == (n + 50) \div 100

\* The stock check with the loop left after its first line.
FirstShortFirstLineOnly(items) ==
  IF items # <<>> /\ items[1].stock < items[1].quantity THEN 1 ELSE 0

\* for (const item of cart.items) if (item.product.stock < item.quantity) return 400
\* The index of the first line that fails the check, 0 when every line passes.
FirstShort(items) ==
  IF \E i \in 1..Len(items) : items[i].stock < items[i].quantity
  THEN CHOOSE i \in 1..Len(items) :
         /\ items[i].stock < items[i].quantity
         /\ \A j \in 1..(i - 1) : ~(items[j].stock < items[j].quantity)
  ELSE 0

\* The empty-cart check without its length test.
CartIsEmptyMissingOnly(cart) == ~cart.exists

\* if (!cart || cart.items.length === 0) return 400
CartIsEmpty(cart) == ~cart.exists \/ Len(cart.items) = 0

\* cart.items.map(item => ({product, quantity, price, total}))
OrderItems(items) ==
  [i \in 1..Len(items) |->
     [product |-> items[i].product, quantity |-> items[i].quantity,
      price |-> items[i].price, total |-> items[i].total]]

Tax(subtotal) == MathRound(subtotal * TaxPercent)

Total(subtotal) == subtotal + Shipping + Tax(subtotal)

\* paymentMethod = 'upi' when the body has none
PaymentMethod(body) == IF body = NoText THEN "upi" ELSE body

\* A payment that counts as paid unless it is cash on delivery.
PaymentStatusPaidUnlessCod(method) == IF method = "cod" THEN "pending" ELSE "paid"

\* paymentMethod === 'cod' ? 'pending' : 'pending'
PaymentStatus(method) == IF method = "cod" THEN "pending" ELSE "pending"

\* new Order({...}) as built in memory before save()
NewOrder(u, cart, method, t, sfx) ==
  [user |-> u,
   items |-> OrderItems(cart.items),
   subtotal |-> cart.subtotal,
   shipping |-> Shipping,
   tax |-> Tax(cart.subtotal),
   total |-> Total(cart.subtotal),
   paymentMethod |-> method,
   paymentStatus |-> PaymentStatus(method),
   orderNumber |-> <<t, sfx>>,
   status |-> "pending",
   trackingNumber |-> NoText,
   estimatedDelivery |-> NoDate,
   deliveredAt |-> NoDate,
   createdAt |-> NoDate]

NoOrder == NewOrder("u1", NoCart, "upi", 0, "A")

\* The payload of a response that carries orders or figures.
NoPage == [currentPage |-> 0, totalPages |-> 0, totalOrders |-> 0,
           hasNext |-> FALSE, hasPrev |-> FALSE]
NoCounts == [totalOrders |-> 0, pendingOrders |-> 0, confirmedOrders |-> 0,
             shippedOrders |-> 0, deliveredOrders |-> 0, cancelledOrders |-> 0]
NoPayload == [orders |-> <<>>, totalRevenue |-> 0, pagination |-> NoPage,
              counts |-> NoCounts, recentOrders |-> <<>>]

\* The query string of a listing (0: the parameter is not given).
NoQuery == [page |-> 0, limit |-> 0, status |-> NoText]

NoResp == [to |-> "none", code |-> 0, message |-> "none", product |-> "none",
           data |-> NoPayload, query |-> NoQuery]
Resp(r, c, m) == [to |-> r, code |-> c, message |-> m, product |-> "none",
                  data |-> NoPayload, query |-> NoQuery]

\* A request's locals.  `alone` and `failed` are history, not program
\* state: `alone` is true while, since the request read the cart, no other
\* order creation has taken a step and no cart request of the same user has
\* been served; `failed` is true once the request has been answered by the
\* catch block after its order.save().
IdleReq == [pc |-> "idle", user |-> "u1", cart |-> NoCart, order |-> NoOrder,
            id |-> 0, i |-> 0, alone |-> FALSE, failed |-> FALSE]

\* Request slots are taken in order (r1 is the first request to arrive).
Earlier(r) == IF r = "r2" THEN {"r1"} ELSE {}

InFlight(r) == reqs[r].pc \notin {"idle", "done"}

\* Requests in flight other than r see a step of r.
Disturbed(rs, r) ==
  [x \in Reqs |-> IF x # r /\ rs[x].pc \notin {"idle", "done"}
                  THEN [rs[x] EXCEPT !.alone = FALSE] ELSE rs[x]]

\* Requests of user u in flight see a cart request of u.
CartTouched(rs, u) ==
  [x \in Reqs |-> IF rs[x].user = u /\ rs[x].pc \notin {"idle", "done"}
                  THEN [rs[x] EXCEPT !.alone = FALSE] ELSE rs[x]]

\* The request is over: its locals are dropped.
Finish(r) == Disturbed([reqs EXCEPT ![r] = [IdleReq EXCEPT !.pc = "done"]], r)

\* The request is over in the catch block, which rolls nothing back.
Fail(r) == [Finish(r) EXCEPT ![r].failed = reqs[r].id # 0]

\* ------------------------------------------------------- read endpoints
\* The Orders collection as documents: the _id next to the stored fields.
Documents(os) == [i \in 1..Len(os) |-> [id |-> i, order |-> os[i]]]

\* The clock value of a Date field.
TimeOf(d) == d[1]

\* A sort that keeps the insertion order.
SortOldestFirst(docs) == docs

\* .sort({ createdAt: -1 }): the latest first; documents of the same
\* createdAt stay in insertion order.
RECURSIVE SortByRecency(_)
SortByRecency(docs) ==
  IF docs = <<>> THEN <<>>
  ELSE LET Latest(i) == \A j \in 1..Len(docs) :
                          \/ TimeOf(docs[j].order.createdAt) < TimeOf(docs[i].order.createdAt)
                          \/ (TimeOf(docs[j].order.createdAt) = TimeOf(docs[i].order.createdAt) /\ i <= j)
           k == CHOOSE i \in 1..Len(docs) : Latest(i)
       IN <<docs[k]>> \o SortByRecency(SubSeq(docs, 1, k - 1) \o SubSeq(docs, k + 1, Len(docs)))

\* .skip(n): a negative skip is rejected by the driver (see AdminAll).
Skip(docs, n) == SubSeq(docs, n + 1, Len(docs))

\* .limit(n)
Limit(docs, n) == SubSeq(docs, 1, IF n < Len(docs) THEN n ELSE Len(docs))

\* A ceiling taken as a floor.
MathCeilAsFloor(n, d) == n \div d

\* Math.ceil(n / d) for n >= 0, d >= 1
MathCeil(n, d) == (n + d - 1) \div d

\* Revenue over every order that is not cancelled.
RevenueStatusesAllButCancelled == {"pending", "confirmed", "shipped", "delivered"}

\* { $match: { status: { $in: ['confirmed', 'shipped', 'delivered'] } } }
RevenueStatuses == {"confirmed", "shipped", "delivered"}

\* { $group: { _id: null, totalRevenue: { $sum: '$total' } } } over the
\* matched orders; revenueAggregation[0]?.totalRevenue || 0
RECURSIVE TotalRevenue(_)
TotalRevenue(os) ==
  IF os = <<>> THEN 0
  ELSE (IF Head(os).status \in RevenueStatuses THEN Head(os).total ELSE 0)
       + TotalRevenue(Tail(os))

\* Order.countDocuments() and Order.countDocuments({ status })
CountDocuments(os, status) ==
  LET Match(o) == status = NoText \/ o.status = status
  IN Len(SelectSeq(os, Match))

\* The locals of the statistics handler: the query it is about to run
\* (0: no request is being served) and the results it holds.
NoStats == [pc |-> 0, counts |-> NoCounts, totalRevenue |-> 0]

\* The k-th awaited query of the statistics handler, run over the orders os,
\* adds its result to the locals s: the six counts, then the revenue.
StatsQuery(k, s, os) ==
  CASE k = 1 -> [s EXCEPT !.counts.totalOrders = CountDocuments(os, NoText)]
    [] k = 2 -> [s EXCEPT !.counts.pendingOrders = CountDocuments(os, "pending")]
    [] k = 3 -> [s EXCEPT !.counts.confirmedOrders = CountDocuments(os, "confirmed")]
    [] k = 4 -> [s EXCEPT !.counts.shippedOrders = CountDocuments(os, "shipped")]
    [] k = 5 -> [s EXCEPT !.counts.deliveredOrders = CountDocuments(os, "delivered")]
    [] k = 6 -> [s EXCEPT !.counts.cancelledOrders = CountDocuments(os, "cancelled")]
    [] OTHER -> [s EXCEPT !.totalRevenue = TotalRevenue(os)]

\* The locals after the first k queries, all run over the same orders.
RECURSIVE StatsAfter(_, _)
StatsAfter(k, os) == IF k = 0 THEN NoStats ELSE StatsQuery(k, StatsAfter(k - 1, os), os)

\* .limit(5) of the recent orders
RecentLimit == 5

\* Order.find().populate('user', 'fullName email').sort({ createdAt: -1 }).limit(5)
RecentOrders(os) == Limit(SortByRecency(Documents(os)), RecentLimit)

\* The last query and the body of the answer: the results held in s and
\* the recent orders of os.
StatsBody(s, os) ==
  [NoPayload EXCEPT !.counts = s.counts, !.totalRevenue = s.totalRevenue,
                    !.recentOrders = RecentOrders(os)]

\* ----------------------------------------------------------- the client
\* src/src/context/AuthContext.tsx: apiCall and the auth operations.
retryCount == 3

Ops == {"signIn", "signUp", "updateProfile", "forgotPassword"}

\* What one fetch() of apiCall can come to: a response (its status, and what
\* response.json() gives for its body) or a rejection with a TypeError.
\* The message of the TypeError of an unreachable host depends on the
\* browser ('Failed to fetch' in Chromium, 'Load failed' in WebKit).
FetchOutcomes ==
  {[kind |-> "response", status |-> 200, body |-> "success"],
   [kind |-> "response", status |-> 200, body |-> "fresh"],
   [kind |-> "response", status |-> 200, body |-> "refused"],
   [kind |-> "response", status |-> 200, body |-> "unparsable"],
   [kind |-> "response", status |-> 400, body |-> "refused"],
   [kind |-> "response", status |-> 401, body |-> "refused"],
   [kind |-> "response", status |-> 429, body |-> "refused"],
   [kind |-> "TypeError", status |-> 0, body |-> "Failed to fetch"],
   [kind |-> "TypeError", status |-> 0, body |-> "Load failed"]}

\* response.ok
ResponseOk(status) == status \in 200..299

\* data of a parsed body: a success carries token and user and no message
\* (the user as the server holds it, which after a change of the account is
\* not the user of an earlier response), a refusal carries the server's
\* message.
BodyData(body) ==
  IF body = "success"
  THEN [success |-> TRUE, message |-> NoText, token |-> "token", user |-> "user"]
  ELSE IF body = "fresh"
  THEN [success |-> TRUE, message |-> NoText, token |-> "token", user |-> "user2"]
  ELSE [success |-> FALSE, message |-> "server message", token |-> NoText, user |-> NoText]

NoData == [success |-> FALSE, message |-> NoText, token |-> NoText, user |-> NoText]

\* `HTTP ${response.status}: ${response.statusText}`
HttpMessage(status) ==
  CASE status = 400 -> "HTTP 400: Bad Request"
    [] status = 401 -> "HTTP 401: Unauthorized"
    [] status = 429 -> "HTTP 429: Too Many Requests"
    [] OTHER -> "HTTP error"

ErrorOf(class, message) == [class |-> class, message |-> message]
NoError == ErrorOf("none", NoText)

\* A backoff of one second whatever the attempt.
WaitTimeFlat(attempt) == 1000

\* Math.pow(2, attempt) * 1000
WaitTime(attempt) == (2 ^ attempt) * 1000

\* How one pass of the loop of apiCall ends.
NoApi == [next |-> "none", ms |-> 0, error |-> NoError, data |-> NoData]
Retry(ms) == [next |-> "wait", ms |-> ms, error |-> NoError, data |-> NoData]
Return(d) == [next |-> "return", ms |-> 0, error |-> NoError, data |-> d]
Throw(e) == [next |-> "throw", ms |-> 0, error |-> e, data |-> NoData]

\* A catch block that retries whatever was thrown.
RetryableAnyError(e) == TRUE

\* error instanceof TypeError
Retryable(e) == e.class = "TypeError"

\* A loop that takes no attempt for its last.
LastAttemptNever(n, attempt) == FALSE

\* attempt === retryCount
LastAttempt(n, attempt) == attempt = n

\* catch (error) of apiCall called with retryCount = n
Catch(n, attempt, e) ==
  IF LastAttempt(n, attempt) \/ ~Retryable(e)
  THEN IF e.class = "TypeError" /\ e.message = "Failed to fetch"
       THEN Throw(ErrorOf("Error", "Backend server is not available. Please deploy the backend first or use demo mode."))
       ELSE Throw(e)
  ELSE Retry(WaitTime(attempt))

\* The body of the loop of apiCall, called with retryCount = n, for one
\* attempt and one outcome of fetch.
ApiAttempt(n, attempt, outcome) ==
  IF outcome.kind = "TypeError"
  THEN Catch(n, attempt, ErrorOf("TypeError", outcome.body))
  ELSE IF outcome.status = 429 /\ attempt < n
  THEN Retry(WaitTime(attempt))
  ELSE IF ~ResponseOk(outcome.status)
  THEN IF outcome.status = 429
       THEN Catch(n, attempt, ErrorOf("Error", "Server is busy. Please try again in a few minutes."))
       ELSE Catch(n, attempt, ErrorOf("Error", HttpMessage(outcome.status)))
  ELSE IF outcome.body = "unparsable"
  THEN Catch(n, attempt, ErrorOf("SyntaxError", "Unexpected token"))
  ELSE Return(BodyData(outcome.body))

\* error.message.includes(...)
IsBackendUnavailable(e) ==
  e.message = "Backend server is not available. Please deploy the backend first or use demo mode."
IsServerBusy(e) == e.message = "Server is busy. Please try again in a few minutes."

NotDeployed ==
  "Backend server is not deployed yet. Please deploy the backend to use authentication features."

\* a || b for a message that may be absent
OrElse(m, d) == IF m = NoText THEN d ELSE m

NoResult == [success |-> FALSE, message |-> NoText]

\* What the operation returns to its caller once apiCall has settled:
\* { success, message }; initializeAuth and apiCall itself return none.
OpResult(op, api) ==
  IF op \in {"initialize", "apiCall"} THEN NoResult
  ELSE IF api.next = "return"
  THEN LET d == api.data
       IN CASE op = "signIn" ->
                 IF d.success THEN [success |-> TRUE, message |-> OrElse(d.message, "Login successful")]
                 ELSE [success |-> FALSE, message |-> OrElse(d.message, "Login failed")]
            [] op = "signUp" ->
                 IF d.success THEN [success |-> TRUE, message |-> OrElse(d.message, "Registration successful")]
                 ELSE [success |-> FALSE, message |-> OrElse(d.message, "Registration failed")]
            [] op = "updateProfile" ->
                 IF d.success THEN [success |-> TRUE, message |-> d.message]
                 ELSE [success |-> FALSE, message |-> OrElse(d.message, "Update failed")]
            [] OTHER ->
                 [success |-> d.success, message |-> OrElse(d.message, "Request submitted")]
  ELSE LET e == api.error
       IN CASE op = "signIn" ->
                 IF IsBackendUnavailable(e) THEN [success |-> FALSE, message |-> NotDeployed]
                 ELSE [success |-> FALSE, message |-> "Network error. Please try again."]
            [] op = "signUp" ->
                 IF IsServerBusy(e)
                 THEN [success |-> FALSE, message |-> "Server is currently busy. Please wait a moment and try again."]
                 ELSE IF IsBackendUnavailable(e) THEN [success |-> FALSE, message |-> NotDeployed]
                 ELSE [success |-> FALSE, message |-> "Network error. Please try again in a few moments."]
            [] OTHER -> [success |-> FALSE, message |-> "Network error. Please try again."]

\* Only the sign-in and sign-up forms end loading.
EndsLoadingLoginOnly(op) == op \in {"signIn", "signUp"}

\* setLoading(false): the `finally` of signIn and of signUp, and the last
\* line of initializeAuth.
EndsLoading(op) == op \in {"signIn", "signUp", "initialize"}

\* The session an operation leaves behind once its apiCall has settled:
\* signIn and signUp store token and user on success, updateProfile stores
\* the user, initializeAuth sets the user state on success and clears
\* storage and state when the server answers OK without success; the
\* `finally` of signIn and signUp and the last line of initializeAuth end
\* loading.  `signedOut` is history (see IdleClient).
Session(c, op, api) ==
  LET good == api.next = "return" /\ api.data.success
      login == op \in {"signIn", "signUp"}
      invalid == op = "initialize" /\ api.next = "return" /\ ~api.data.success
  IN [c EXCEPT !.token = IF good /\ login THEN api.data.token
                         ELSE IF invalid THEN NoText ELSE @,
               !.jwt = IF good /\ login THEN api.data.token
                       ELSE IF invalid THEN NoText ELSE @,
               !.saved = IF good /\ (login \/ op = "updateProfile") THEN api.data.user
                         ELSE IF invalid THEN NoText ELSE @,
               !.user = IF good /\ (login \/ op \in {"updateProfile", "initialize"})
                        THEN api.data.user
                        ELSE IF invalid THEN NoText ELSE @,
               !.loading = IF EndsLoading(op) THEN FALSE ELSE @,
               !.signedOut = IF good /\ login THEN FALSE ELSE @]

\* The browser after a first load: nothing in local storage, no user, and
\* initializeAuth over.  token and saved are the entries 'token' and 'user'
\* of local storage, jwt and user the React state; retry is the retryCount
\* and sent the bearer token of the apiCall in progress.  `signedOut` is
\* history, not program state: signOut has been called and no signIn or
\* signUp has succeeded since.
IdleClient ==
  [pc |-> "idle", op |-> NoText, attempt |-> 0, log |-> <<>>, waits |-> <<>>,
   api |-> NoApi, result |-> NoResult, calls |-> 0, retry |-> retryCount, sent |-> NoText,
   token |-> NoText, jwt |-> NoText, saved |-> NoText, user |-> NoText, loading |-> FALSE,
   signedOut |-> FALSE]

\* ------------------------------------------------- the UPI payment form
\* src/src/components/APITester.tsx, lines 87-422: UPIPayment.
\* 5 * 1024 * 1024
MaxFileSize == 5242880

\* The files a user may pick: of an image type or not, below, at and above
\* the size limit.
FileTypes == {<<"image", "png">>, <<"application", "pdf">>}
FileSizes == {1024, MaxFileSize, MaxFileSize + 1}
Files == [type : FileTypes, size : FileSizes]

\* event.target.files?.[0] of a change event without a file; a null
\* paymentScreenshot.
NoFile == [type |-> <<NoText, NoText>>, size |-> 0]

\* A null previewUrl.
NoUrl == <<>>

\* URL.createObjectURL(file)
CreateObjectURL(f) == <<"blob", f>>

\* A type test that lets every file through.
IsImageAny(f) == TRUE

\* file.type.startsWith('image/')
IsImage(f) == f.type[1] = "image"

\* file.size > 5 * 1024 * 1024
TooLarge(f) == f.size > MaxFileSize

\* What the awaited fetch of create-upi-order and response.json() come to:
\* a body with success, a body without (with the server's message or with
\* none), a body that does not parse, a rejected fetch.
UpiOutcomes == {"success", "refused", "refused-silent", "unparsable", "TypeError"}

\* The component after construction: upiInfo not fetched yet, the upload
\* form hidden, nothing selected.  `request` is the screenshot of the last
\* create-upi-order request, `submits` counts these requests, `onSuccess`
\* the outcomes onSuccess was called for, `last` the outcome of the last
\* request and `alert` the text of the last alert().
IdleUpi ==
  [info |-> FALSE, showUploadForm |-> FALSE, paymentScreenshot |-> NoFile,
   previewUrl |-> NoUrl, loading |-> FALSE, pc |-> "idle", request |-> NoFile,
   submits |-> 0, onSuccess |-> <<>>, last |-> NoText, alert |-> NoText]

\* ------------------------------------------------------- the app shell
\* src/src/App.tsx, lines 27-217: AppContent.
\* The pages Header and HomePage pass to onNavigate.
NavPages == {"home", "products", "about", "contact"}

\* The orders Checkout passes to onOrderComplete.
CompletedOrders == {"order-1", "order-2"}

\* The values of `user` useAuth() gives: none, a customer, an admin.
AppUsers == {NoText, "customer", "admin"}

\* A test that takes every signed-in user for an admin.
IsAdminUserAny(u) == u # NoText

\* user?.isAdmin
IsAdminUser(u) == u = "admin"

\* AppContent after its first render and its mount effects with no user:
\* the home page, nothing selected, no order, the dashboard flag false.
\* `effect` is true while the effect on [user] has yet to run for the
\* user of the last render.
IdleApp ==
  [currentPage |-> "home", selectedProduct |-> NoText, orderInfo |-> NoText,
   showAdminDashboard |-> FALSE, user |-> NoText, effect |-> FALSE]

\* `if (user?.isAdmin && showAdminDashboard) return <AdminDashboard ... />`
DashboardRendered(a) == IsAdminUser(a.user) /\ a.showAdminDashboard

\* The regular view, whose handlers the page, the header and the cart
\* call, is rendered: neither the dashboard nor the loading screen is.
RegularView == ~DashboardRendered(app) /\ ~client.loading /\ ~app.effect

\* ------------------------------------------------------------------- Init
Init ==
  /\ stock = InitStock
  /\ carts = [u \in Users |-> NoCart]
  /\ orders = <<>>
  /\ reqs = [r \in Reqs |-> IdleReq]
  /\ now = 1
  /\ adds = 0
  /\ updates = 0
  /\ out = NoResp
  /\ client = IdleClient
  /\ stats = NoStats
  /\ upi = IdleUpi
  /\ app = IdleApp

\* ---------------------------------------------------------------- actions
\* The clock advances.
Tick ==
  /\ now < MaxClock
  /\ now' = now + 1
  /\ out' = NoResp
  /\ UNCHANGED <<stock, carts, orders, reqs, adds, updates, client, stats, upi, app>>

\* A cart request of user u adds q of product p (the cart is created lazily).
AddToCart(u, p, q) ==
  /\ adds < MaxAdds
  /\ LET i == LineIndex(carts[u].items, p)
     IN (IF i = 0 THEN q ELSE carts[u].items[i].quantity + q) <= MaxQty
  /\ carts' = [carts EXCEPT ![u] = AddItem(carts[u], p, q)]
  /\ adds' = adds + 1
  /\ reqs' = CartTouched(reqs, u)
  /\ out' = NoResp
  /\ UNCHANGED <<stock, orders, now, updates, client, stats, upi, app>>

\* POST /api/orders up to `await order.save()`: User.findById, then
\* Cart.findOne(...).populate('items.product'), the empty-cart check, the
\* stock check and the construction of the order.  Both lookups only read,
\* and nothing is written before save(), so they form one step.
\* userExists is false for a token whose account has been removed; dbOk is
\* false when one of the two lookups rejects.
CreateOrderBegin(r, u, body, userExists, dbOk, sfx) ==
  /\ reqs[r].pc = "idle"
  /\ \A r0 \in Earlier(r) : reqs[r0].pc # "idle"
  /\ LET doc == carts[u]
         cart == [doc EXCEPT !.items = Populate(doc.items, stock)]
         short == FirstShort(cart.items)
     IN IF ~dbOk
        THEN /\ reqs' = Finish(r)
             /\ out' = Resp(r, 500, "Error creating order")
        ELSE IF ~userExists
        THEN /\ reqs' = Finish(r)
             /\ out' = Resp(r, 404, "User not found")
        ELSE IF CartIsEmpty(cart)
        THEN /\ reqs' = Finish(r)
             /\ out' = Resp(r, 400, "Cart is empty")
        ELSE IF short # 0
        THEN /\ reqs' = Finish(r)
             /\ out' = [Resp(r, 400, "Insufficient stock") EXCEPT
                          !.product = cart.items[short].product]
        ELSE /\ reqs' = Disturbed(
                         [reqs EXCEPT ![r].pc = "save", ![r].user = u, ![r].cart = cart,
                                      ![r].alone = TRUE,
                                      ![r].order = NewOrder(u, cart, PaymentMethod(body), now, sfx)], r)
             /\ out' = NoResp
  /\ UNCHANGED <<stock, carts, orders, now, adds, updates, client, stats, upi, app>>

\* The decrement loop reading the stored cart again.
DecrementLinesStoredCart(r) == carts[reqs[r].user].items

\* The lines the decrement loop walks: cart.items of the cart read at the start.
DecrementLines(r) == reqs[r].cart.items

\* A decrement that applies only while the stock suffices.
IncStockIfSufficient(st, p, q) == IF st[p] >= q THEN [st EXCEPT ![p] = st[p] - q] ELSE st

\* A decrement by one item whatever the quantity.
IncStockByOne(st, p, q) == [st EXCEPT ![p] = st[p] - 1]

\* Product.findByIdAndUpdate(id, { $inc: { stock: -quantity } })
IncStock(st, p, q) == [st EXCEPT ![p] = st[p] - q]

\* await order.save(); then the stock loop starts (or is over, with no line).
CreateOrderSave(r) ==
  /\ reqs[r].pc = "save"
  /\ orders' = Append(orders, [reqs[r].order EXCEPT !.createdAt = <<now>>])
  /\ reqs' = Disturbed([reqs EXCEPT ![r].pc = IF DecrementLines(r) = <<>> THEN "clear"
                                              ELSE "decrement",
                                    ![r].id = Len(orders) + 1,
                                    ![r].i = 1, ![r].order = NoOrder], r)
  /\ out' = NoResp
  /\ UNCHANGED <<stock, carts, now, adds, updates, client, stats, upi, app>>

\* One iteration of the stock loop.
CreateOrderDecrement(r) ==
  /\ reqs[r].pc = "decrement"
  /\ LET lines == DecrementLines(r)
         i == reqs[r].i
     IN /\ i <= Len(lines)
        /\ stock' = IncStock(stock, lines[i].product, lines[i].quantity)
        /\ reqs' = Disturbed([reqs EXCEPT ![r].i = i + 1,
                                ![r].pc = IF i >= Len(lines) THEN "clear" ELSE "decrement"], r)
  /\ out' = NoResp
  /\ UNCHANGED <<carts, orders, now, adds, updates, client, stats, upi, app>>

\* await cart.clearCart(): the in-memory document is emptied and saved;
\* then order.populate('items.product') (a read) and the 201, or the 500 of
\* the catch block when the populate rejects.
CreateOrderClear(r, populateOk) ==
  /\ reqs[r].pc = "clear"
  /\ carts' = [carts EXCEPT ![reqs[r].user] = ClearedCart(reqs[r].cart)]
  /\ reqs' = IF populateOk THEN Finish(r) ELSE Fail(r)
  /\ out' = IF populateOk THEN Resp(r, 201, "Order created successfully")
            ELSE Resp(r, 500, "Error creating order")
  /\ UNCHANGED <<stock, orders, now, adds, updates, client, stats, upi, app>>

\* An awaited write of the handler (save, $inc, clearCart) rejects: the
\* catch block answers 500.
CreateOrderError(r) ==
  /\ InFlight(r)
  /\ reqs' = Fail(r)
  /\ out' = Resp(r, 500, "Error creating order")
  /\ UNCHANGED <<stock, carts, orders, now, adds, updates, client, stats, upi, app>>

\* authenticateToken: a request without a valid bearer token is answered 401.
Authenticated(caller) == caller # "anon"

\* requireAdmin: a request of a user who is no admin is answered 403.
IsAdmin(caller) == caller = "admin"

\* An update that also zeroes the total of an order it marks refunded.
UpdateFirstRefundsTotal(o, body, t) ==
  [o EXCEPT !.status = body.status,
            !.trackingNumber = IF body.trackingNumber # NoText THEN body.trackingNumber ELSE @,
            !.estimatedDelivery = IF body.estimatedDelivery # NoDate THEN body.estimatedDelivery ELSE @,
            !.deliveredAt = IF body.status = "delivered" THEN <<t>> ELSE @,
            !.total = IF body.status = "refunded" THEN 0 ELSE @]

\* First registration of PUT /:id/status: updateData as the handler builds it,
\* applied to the order by findByIdAndUpdate.
UpdateFirst(o, body, t) ==
  [o EXCEPT !.status = body.status,
            !.trackingNumber = IF body.trackingNumber # NoText THEN body.trackingNumber ELSE @,
            !.estimatedDelivery = IF body.estimatedDelivery # NoDate THEN body.estimatedDelivery ELSE @,
            !.deliveredAt = IF body.status = "delivered" THEN <<t>> ELSE @]

\* An update that inserts the order when no order has the id.
HandleFirstUpsert(id, body) ==
  IF id \in 1..Len(orders)
  THEN [orders |-> [orders EXCEPT ![id] = UpdateFirst(orders[id], body, now)],
        resp |-> Resp("put", 200, "Order status updated")]
  ELSE [orders |-> Append(orders, UpdateFirst(NoOrder, body, now)),
        resp |-> Resp("put", 200, "Order status updated")]

\* First registration: no check of the status; 404 when no order has the id.
HandleFirst(id, body) ==
  IF id \in 1..Len(orders)
  THEN [orders |-> [orders EXCEPT ![id] = UpdateFirst(orders[id], body, now)],
        resp |-> Resp("put", 200, "Order status updated")]
  ELSE [orders |-> orders, resp |-> Resp("put", 404, "Order not found")]

\* Second registration of PUT /:id/status: { status: status } only.
UpdateSecond(o, body) == [o EXCEPT !.status = body.status]

\* Second registration: the status is checked against validStatuses first.
HandleSecond(id, body) ==
  IF body.status \notin validStatuses
  THEN [orders |-> orders, resp |-> Resp("put", 400, "Invalid status")]
  ELSE IF id \in 1..Len(orders)
  THEN [orders |-> [orders EXCEPT ![id] = UpdateSecond(orders[id], body)],
        resp |-> Resp("put", 200, "Order status updated successfully")]
  ELSE [orders |-> orders, resp |-> Resp("put", 404, "Order not found")]

\* The two registrations in the opposite order.
StatusRoutesSwapped == <<"second", "first">>

\* The handlers of PUT /:id/status in the order router.put registered them.
StatusRoutes == <<"first", "second">>

\* Express runs the first matching handler; it answers on every path and
\* never calls next(), so a later registration of the same route is not run.
Dispatch(id, body) ==
  IF Head(StatusRoutes) = "first" THEN HandleFirst(id, body) ELSE HandleSecond(id, body)

\* PUT /api/orders/:id/status.  dbOk is false when findByIdAndUpdate rejects.
UpdateStatus(caller, id, body, dbOk) ==
  /\ updates < MaxUpdates
  /\ updates' = updates + 1
  /\ LET res == IF ~Authenticated(caller) THEN [orders |-> orders, resp |-> Resp("put", 401, "Access token required")]
                ELSE IF ~IsAdmin(caller) THEN [orders |-> orders, resp |-> Resp("put", 403, "Admin access required")]
                ELSE IF ~dbOk THEN [orders |-> orders, resp |-> Resp("put", 500, "Error updating order status")]
                ELSE Dispatch(id, body)
     IN /\ orders' = res.orders
        /\ out' = res.resp
  /\ UNCHANGED <<stock, carts, reqs, now, adds, client, stats, upi, app>>

\* Who sends a request that is answered for one user: a user's token or none.
Readers == Users \cup {"anon"}

\* Order.find({ user: req.user._id }).sort({ createdAt: -1 })
OrdersOfUser(os, who) ==
  LET Mine(d) == d.order.user = who
  IN SortByRecency(SelectSeq(Documents(os), Mine))

\* Order.findOne({ _id: req.params.id, user: req.user._id })
OrderOfUser(os, who, id) ==
  LET Mine(d) == d.id = id /\ d.order.user = who
  IN SelectSeq(Documents(os), Mine)

\* GET /api/orders: the caller's orders, the latest first.
GetOrders(who, dbOk) ==
  /\ out' = IF ~Authenticated(who) THEN Resp("get", 401, "Access token required")
            ELSE IF ~dbOk THEN Resp("get", 500, "Error retrieving orders")
            ELSE [Resp("get", 200, NoText) EXCEPT !.data.orders = OrdersOfUser(orders, who)]
  /\ UNCHANGED <<stock, carts, orders, reqs, now, adds, updates, client, stats, upi, app>>

\* GET /api/orders/:id: findOne({ _id, user }), 404 when there is none.
GetOrder(who, id, dbOk) ==
  /\ out' = IF ~Authenticated(who) THEN Resp("get-id", 401, "Access token required")
            ELSE IF ~dbOk THEN Resp("get-id", 500, "Error retrieving order")
            ELSE LET found == OrderOfUser(orders, who, id)
                 IN IF found = <<>> THEN Resp("get-id", 404, "Order not found")
                    ELSE [Resp("get-id", 200, NoText) EXCEPT !.data.orders = <<found[1]>>]
  /\ UNCHANGED <<stock, carts, orders, reqs, now, adds, updates, client, stats, upi, app>>

\* A query string without the parameter (the pages and limits sent are >= 1).
Absent == 0
DefaultPage == 1
DefaultLimit == 50
QueryPages == {Absent, 1, 2, 3}
QueryLimits == {Absent, 1, 2}
StatusFilters == {NoText, "all", "shipped"}

\* page * limit <= totalOrders in the place of <
HasNextInclusive(page, limit, totalOrders) == page * limit <= totalOrders

\* hasNext: page * limit < totalOrders
HasNext(page, limit, totalOrders) == page * limit < totalOrders

\* .select('orderNumber customer items subtotal total status paymentMethod
\* createdAt isGuestOrder user'): the fields of an order that are listed.
Select(d) ==
  [id |-> d.id,
   order |-> [orderNumber |-> d.order.orderNumber, items |-> d.order.items,
              subtotal |-> d.order.subtotal, total |-> d.order.total,
              status |-> d.order.status, paymentMethod |-> d.order.paymentMethod,
              createdAt |-> d.order.createdAt, user |-> d.order.user]]

\* The body of GET /admin/all and of GET /admin/all-public: the status
\* filter, the page of the matching orders and the pagination figures.
\* find and countDocuments run under one Promise.all and are taken together.
\* The search and date filters are left out: a query carries neither.
ListOrders(os, pageQ, limitQ, status) ==
  LET page == IF pageQ = Absent THEN DefaultPage ELSE pageQ
      limit == IF limitQ = Absent THEN DefaultLimit ELSE limitQ
      skip == (page - 1) * limit
      Match(d) == (status # NoText /\ status # "all") => d.order.status = status
      matched == SelectSeq(Documents(os), Match)
      totalOrders == Len(matched)
      page1 == Limit(Skip(SortByRecency(matched), skip), limit)
  IN [NoPayload EXCEPT
        !.orders = [k \in 1..Len(page1) |-> Select(page1[k])],
        !.pagination = [currentPage |-> page,
                        totalPages |-> MathCeil(totalOrders, limit),
                        totalOrders |-> totalOrders,
                        hasNext |-> HasNext(page, limit, totalOrders),
                        hasPrev |-> page > 1]]

\* GET /api/orders/admin/all
AdminAll(caller, pageQ, limitQ, status, dbOk) ==
  /\ out' = IF ~Authenticated(caller) THEN Resp("all", 401, "Access token required")
            ELSE IF ~IsAdmin(caller) THEN Resp("all", 403, "Admin access required")
            ELSE IF ~dbOk THEN Resp("all", 500, "Error retrieving orders")
            ELSE [Resp("all", 200, NoText) EXCEPT
                    !.data = ListOrders(orders, pageQ, limitQ, status),
                    !.query = [page |-> pageQ, limit |-> limitQ, status |-> status]]
  /\ UNCHANGED <<stock, carts, orders, reqs, now, adds, updates, client, stats, upi, app>>

\* GET /api/orders/admin/all-public: the same listing behind no middleware,
\* so that the handler runs whoever the caller is.
AdminAllPublic(caller, pageQ, limitQ, status, dbOk) ==
  /\ out' = IF ~dbOk THEN Resp("all-public", 500, "Error retrieving orders")
            ELSE [Resp("all-public", 200, NoText) EXCEPT
                    !.data = ListOrders(orders, pageQ, limitQ, status),
                    !.query = [page |-> pageQ, limit |-> limitQ, status |-> status]]
  /\ UNCHANGED <<stock, carts, orders, reqs, now, adds, updates, client, stats, upi, app>>

\* GET /api/orders/admin/stats served while nothing is written: its eight
\* queries (six counts, the revenue aggregate, the recent orders) all see
\* the same orders.
AdminStats(caller, dbOk) ==
  /\ stats.pc = 0
  /\ out' = IF ~Authenticated(caller) THEN Resp("stats", 401, "Access token required")
            ELSE IF ~IsAdmin(caller) THEN Resp("stats", 403, "Admin access required")
            ELSE IF ~dbOk THEN Resp("stats", 500, "Error retrieving order statistics")
            ELSE [Resp("stats", 200, NoText) EXCEPT
                    !.data = StatsBody(StatsAfter(7, orders), orders)]
  /\ UNCHANGED <<stock, carts, orders, reqs, now, adds, updates, client, stats, upi, app>>

\* GET /api/orders/admin/stats, query by query: the middleware, after which
\* the handler is about to run its first count.
StatsBegin(caller) ==
  /\ stats.pc = 0
  /\ IF ~Authenticated(caller)
     THEN out' = Resp("stats", 401, "Access token required") /\ stats' = stats
     ELSE IF ~IsAdmin(caller)
     THEN out' = Resp("stats", 403, "Admin access required") /\ stats' = stats
     ELSE out' = NoResp /\ stats' = [NoStats EXCEPT !.pc = 1]
  /\ UNCHANGED <<stock, carts, orders, reqs, now, adds, updates, client, upi, app>>

\* The next awaited query of the statistics handler: each of the first seven
\* stores its result, the eighth reads the recent orders and the answer is
\* sent; a query that rejects ends the handler in its catch block.
StatsStep(dbOk) ==
  /\ stats.pc >= 1
  /\ IF ~dbOk
     THEN out' = Resp("stats", 500, "Error retrieving order statistics") /\ stats' = NoStats
     ELSE IF stats.pc <= 7
     THEN out' = NoResp /\ stats' = [StatsQuery(stats.pc, stats, orders) EXCEPT !.pc = @ + 1]
     ELSE /\ out' = [Resp("stats", 200, NoText) EXCEPT !.data = StatsBody(stats, orders)]
          /\ stats' = NoStats
  /\ UNCHANGED <<stock, carts, orders, reqs, now, adds, updates, client, upi, app>>

\* ------------------------------------------------------- client actions
\* apiCall is entered with retryCount = n: it reads the token from local
\* storage and starts its loop with attempt = 0.
EnterApiCall(c, op, n) ==
  [c EXCEPT !.pc = "fetch", !.op = op, !.attempt = 0, !.log = <<>>, !.waits = <<>>,
            !.api = NoApi, !.result = NoResult, !.calls = @ + 1,
            !.retry = n, !.sent = c.token]

\* An auth operation is called: signIn and signUp set loading, and apiCall
\* is entered with the default retryCount.
ClientStart(op) ==
  /\ client.pc \in {"idle", "settled"}
  /\ client.calls < MaxCalls
  /\ client' = [EnterApiCall(client, op, retryCount) EXCEPT
                  !.loading = IF op \in {"signIn", "signUp"} THEN TRUE ELSE @]
  /\ UNCHANGED <<stock, carts, orders, reqs, now, adds, updates, out, stats, upi, app>>

\* The app is loaded again: the React state starts over (user null, loading
\* true, jwt the stored token) and initializeAuth runs: with a token and a
\* user in local storage it sets jwt and user from them and verifies the
\* token through apiCall; otherwise it only ends loading.
ClientLoad ==
  /\ client.pc \in {"idle", "settled"}
  /\ client.calls < MaxCalls
  /\ client' = IF client.token # NoText /\ client.saved # NoText
               THEN [EnterApiCall(client, "initialize", retryCount) EXCEPT
                       !.jwt = client.token, !.user = client.saved, !.loading = TRUE]
               ELSE [client EXCEPT !.pc = "idle", !.op = NoText, !.attempt = 0,
                                   !.log = <<>>, !.waits = <<>>, !.api = NoApi,
                                   !.result = NoResult, !.calls = @ + 1,
                                   !.jwt = client.token, !.user = NoText,
                                   !.loading = FALSE]
  /\ UNCHANGED <<stock, carts, orders, reqs, now, adds, updates, out, stats, upi, app>>

\* apiCall called with an explicit retryCount, by itself.
ApiCall(n) ==
  /\ client.pc \in {"idle", "settled"}
  /\ client.calls < MaxCalls
  /\ client' = EnterApiCall(client, "apiCall", n)
  /\ UNCHANGED <<stock, carts, orders, reqs, now, adds, updates, out, stats, upi, app>>

\* signOut: storage and state are cleared at once; an apiCall in progress
\* goes on.
SignOut ==
  /\ client' = [client EXCEPT !.token = NoText, !.saved = NoText, !.user = NoText,
                              !.jwt = NoText, !.signedOut = TRUE]
  /\ UNCHANGED <<stock, carts, orders, reqs, now, adds, updates, out, stats, upi, app>>

\* The server behind /auth/profile and /auth/verify-token answers with
\* success only to a request that carries a token.
ServerAnswers(op, sent, outcome) ==
  (op \in {"updateProfile", "initialize"} /\ outcome.body \in {"success", "fresh"})
    => sent # NoText

\* `await fetch(...)` settles with the outcome: the pass of the loop either
\* schedules a wait, or apiCall returns or throws and the operation that
\* called it returns its { success, message }.
ClientFetch(outcome) ==
  /\ client.pc = "fetch"
  /\ ServerAnswers(client.op, client.sent, outcome)
  /\ LET a == ApiAttempt(client.retry, client.attempt, outcome)
         c == [client EXCEPT !.log = Append(@, outcome)]
     IN client' = IF a.next = "wait"
                  THEN [c EXCEPT !.pc = "wait", !.waits = Append(@, a.ms)]
                  ELSE [Session(c, client.op, a) EXCEPT
                          !.pc = "settled", !.api = a, !.result = OpResult(client.op, a)]
  /\ UNCHANGED <<stock, carts, orders, reqs, now, adds, updates, out, stats, upi, app>>

\* The timer of the wait fires: attempt++ and the loop goes on; past
\* retryCount the loop is left and 'Maximum retry attempts exceeded' thrown.
ClientWake ==
  /\ client.pc = "wait"
  /\ client' = IF client.attempt + 1 <= client.retry
               THEN [client EXCEPT !.pc = "fetch", !.attempt = @ + 1]
               ELSE LET a == Throw(ErrorOf("Error", "Maximum retry attempts exceeded"))
                    IN [Session(client, client.op, a) EXCEPT
                          !.pc = "settled", !.api = a, !.result = OpResult(client.op, a)]
  /\ UNCHANGED <<stock, carts, orders, reqs, now, adds, updates, out, stats, upi, app>>

\* ------------------------------------------------ UPI payment actions
\* fetchUPIInfo of the mount effect: upiInfo is set when the answer reports
\* success; until then the component renders a spinner only.
FetchUPIInfo(success) ==
  /\ ~upi.info
  /\ upi' = [upi EXCEPT !.info = success]
  /\ UNCHANGED <<stock, carts, orders, reqs, now, adds, updates, out, client, stats, app>>

\* The buttons that show and hide the upload form (the second is disabled
\* while loading).
SetShowUploadForm(show) ==
  /\ upi.info
  /\ upi.showUploadForm # show
  /\ show \/ ~upi.loading
  /\ upi' = [upi EXCEPT !.showUploadForm = show]
  /\ UNCHANGED <<stock, carts, orders, reqs, now, adds, updates, out, client, stats, app>>

\* handleFileSelect for a change event of the file input: no file, a file
\* that is no image or is too large (an alert, nothing set), or a file
\* that becomes the screenshot, with its preview URL.
HandleFileSelect(file) ==
  /\ upi.info /\ upi.showUploadForm
  /\ upi' = IF file = NoFile THEN upi
            ELSE IF ~IsImage(file) THEN [upi EXCEPT !.alert = "Please select an image file"]
            ELSE IF TooLarge(file) THEN [upi EXCEPT !.alert = "File size must be less than 5MB"]
            ELSE [upi EXCEPT !.paymentScreenshot = file,
                             !.previewUrl = CreateObjectURL(file)]
  /\ UNCHANGED <<stock, carts, orders, reqs, now, adds, updates, out, client, stats, app>>

\* handleRemoveFile
HandleRemoveFile ==
  /\ upi.info /\ upi.showUploadForm
  /\ upi.paymentScreenshot # NoFile
  /\ upi' = [upi EXCEPT !.paymentScreenshot = NoFile,
                        !.previewUrl = IF @ # NoUrl THEN NoUrl ELSE @]
  /\ UNCHANGED <<stock, carts, orders, reqs, now, adds, updates, out, client, stats, app>>

\* handleSubmitPayment up to its awaited fetch: without a screenshot an
\* alert and nothing else; otherwise loading is set and the request leaves
\* with the screenshot in its form data.
HandleSubmitPayment ==
  /\ upi.info /\ upi.showUploadForm
  /\ ~upi.loading /\ upi.pc = "idle"
  /\ upi.submits < MaxSubmits
  /\ upi' = IF upi.paymentScreenshot = NoFile
            THEN [upi EXCEPT !.alert = "Please upload payment screenshot"]
            ELSE [upi EXCEPT !.loading = TRUE, !.pc = "fetch",
                             !.request = upi.paymentScreenshot, !.submits = @ + 1]
  /\ UNCHANGED <<stock, carts, orders, reqs, now, adds, updates, out, client, stats, app>>

\* The fetch settles: onSuccess on a body with success, otherwise the
\* throw and the alert of the catch block; `finally` ends loading.
UpiSettle(outcome) ==
  /\ upi.pc = "fetch"
  /\ upi' = [upi EXCEPT
               !.pc = "idle", !.loading = FALSE, !.last = outcome,
               !.onSuccess = IF outcome = "success" THEN Append(@, outcome) ELSE @,
               !.alert = CASE outcome = "success" -> @
                           [] outcome = "refused" -> "server message"
                           [] outcome = "refused-silent" -> "Payment failed"
                           [] outcome = "unparsable" -> "Unexpected token"
                           [] OTHER -> "Failed to fetch"]
  /\ UNCHANGED <<stock, carts, orders, reqs, now, adds, updates, out, client, stats, app>>

\* ------------------------------------------------------ app shell actions
\* The auth context gives another user (sign-in, sign-out, verification):
\* AppContent renders with it, and the effect on [user] is due.
UserChanges(u) ==
  /\ u # app.user
  /\ app' = [app EXCEPT !.user = u, !.effect = TRUE]
  /\ UNCHANGED <<stock, carts, orders, reqs, now, adds, updates, out, client, stats, upi>>

\* useEffect(..., [user]): the dashboard flag follows user?.isAdmin.
AdminEffect ==
  /\ app.effect
  /\ app' = [app EXCEPT !.showAdminDashboard = IsAdminUser(app.user), !.effect = FALSE]
  /\ UNCHANGED <<stock, carts, orders, reqs, now, adds, updates, out, client, stats, upi>>

\* onClose of the dashboard
CloseDashboard ==
  /\ DashboardRendered(app) /\ ~app.effect
  /\ app' = [app EXCEPT !.showAdminDashboard = FALSE]
  /\ UNCHANGED <<stock, carts, orders, reqs, now, adds, updates, out, client, stats, upi>>

\* handleNavigate
HandleNavigate(page) ==
  /\ RegularView
  /\ app' = [app EXCEPT !.currentPage = page, !.selectedProduct = NoText,
                        !.orderInfo = NoText]
  /\ UNCHANGED <<stock, carts, orders, reqs, now, adds, updates, out, client, stats, upi>>

\* handleViewProduct
HandleViewProduct(product) ==
  /\ RegularView
  /\ app' = [app EXCEPT !.selectedProduct = product]
  /\ UNCHANGED <<stock, carts, orders, reqs, now, adds, updates, out, client, stats, upi>>

\* handleCloseProductDetail
HandleCloseProductDetail ==
  /\ RegularView
  /\ app.selectedProduct # NoText
  /\ app' = [app EXCEPT !.selectedProduct = NoText]
  /\ UNCHANGED <<stock, carts, orders, reqs, now, adds, updates, out, client, stats, upi>>

\* handleCheckout, called by the cart on every page
HandleCheckout ==
  /\ RegularView
  /\ app' = [app EXCEPT !.currentPage = "checkout"]
  /\ UNCHANGED <<stock, carts, orders, reqs, now, adds, updates, out, client, stats, upi>>

\* onBack of the checkout page
CheckoutBack ==
  /\ RegularView
  /\ app.currentPage = "checkout"
  /\ app' = [app EXCEPT !.currentPage = "home"]
  /\ UNCHANGED <<stock, carts, orders, reqs, now, adds, updates, out, client, stats, upi>>

\* handleOrderComplete, called by the checkout page
HandleOrderComplete(order) ==
  /\ RegularView
  /\ app.currentPage = "checkout"
  /\ app' = [app EXCEPT !.orderInfo = order, !.currentPage = "order-success"]
  /\ UNCHANGED <<stock, carts, orders, reqs, now, adds, updates, out, client, stats, upi>>

\* handleContinueShopping, called by the order-success page
HandleContinueShopping ==
  /\ RegularView
  /\ app.currentPage = "order-success"
  /\ app' = [app EXCEPT !.currentPage = "home", !.orderInfo = NoText]
  /\ UNCHANGED <<stock, carts, orders, reqs, now, adds, updates, out, client, stats, upi>>

\* The app shell alone.
NextApp ==
  \/ \E u \in AppUsers : UserChanges(u)
  \/ AdminEffect
  \/ CloseDashboard
  \/ \E page \in NavPages : HandleNavigate(page)
  \/ \E p \in Products : HandleViewProduct(p)
  \/ HandleCloseProductDetail
  \/ HandleCheckout
  \/ CheckoutBack
  \/ \E o \in CompletedOrders : HandleOrderComplete(o)
  \/ HandleContinueShopping

SpecApp == Init /\ [][NextApp]_vars

\* The payment form alone, with every file and every outcome of its request.
NextUpi ==
  \/ \E ok \in BOOLEAN : FetchUPIInfo(ok)
  \/ \E show \in BOOLEAN : SetShowUploadForm(show)
  \/ \E f \in Files \cup {NoFile} : HandleFileSelect(f)
  \/ HandleRemoveFile
  \/ HandleSubmitPayment
  \/ \E o \in UpiOutcomes : UpiSettle(o)

SpecUpi == Init /\ [][NextUpi]_vars

\* Every operation of the router and of the client with every input.
Next ==
  \/ Tick
  \/ \E u \in Users, p \in Products, q \in 1..MaxQty : AddToCart(u, p, q)
  \/ \E r \in Reqs, u \in Users, body \in PaymentInputs, e \in BOOLEAN, ok \in BOOLEAN,
        sfx \in Suffixes : CreateOrderBegin(r, u, body, e, ok, sfx)
  \/ \E r \in Reqs : CreateOrderSave(r)
  \/ \E r \in Reqs : CreateOrderDecrement(r)
  \/ \E r \in Reqs, ok \in BOOLEAN : CreateOrderClear(r, ok)
  \/ \E r \in Reqs : CreateOrderError(r)
  \/ \E c \in Callers, id \in OrderIds, body \in StatusBodies \cup StatusOnlyBodies,
        ok \in BOOLEAN : UpdateStatus(c, id, body, ok)
  \/ \E who \in Readers, ok \in BOOLEAN : GetOrders(who, ok)
  \/ \E who \in Readers, id \in OrderIds, ok \in BOOLEAN : GetOrder(who, id, ok)
  \/ \E c \in Callers, pg \in QueryPages, lim \in QueryLimits, st \in StatusFilters,
        ok \in BOOLEAN : AdminAll(c, pg, lim, st, ok)
  \/ \E c \in Callers, pg \in QueryPages, lim \in QueryLimits, st \in StatusFilters,
        ok \in BOOLEAN : AdminAllPublic(c, pg, lim, st, ok)
  \/ \E c \in Callers, ok \in BOOLEAN : AdminStats(c, ok)
  \/ \E c \in Callers : StatsBegin(c)
  \/ \E ok \in BOOLEAN : StatsStep(ok)
  \/ \E op \in Ops : ClientStart(op)
  \/ ClientLoad
  \/ \E n \in 0..MaxRetry : ApiCall(n)
  \/ SignOut
  \/ \E o \in FetchOutcomes : ClientFetch(o)
  \/ ClientWake
  \/ NextUpi
  \/ NextApp

Spec == Init /\ [][Next]_vars

\* The customers' side of the router: carts, the clock, and order creations
\* whose steps interleave freely.
NextShop ==
  \/ Tick
  \/ \E u \in Users, p \in Products, q \in 1..MaxQty : AddToCart(u, p, q)
  \/ \E r \in Reqs, u \in Users, body \in PaymentInputs, e \in BOOLEAN, ok \in BOOLEAN,
        sfx \in Suffixes : CreateOrderBegin(r, u, body, e, ok, sfx)
  \/ \E r \in Reqs : CreateOrderSave(r)
  \/ \E r \in Reqs : CreateOrderDecrement(r)
  \/ \E r \in Reqs, ok \in BOOLEAN : CreateOrderClear(r, ok)
  \/ \E r \in Reqs : CreateOrderError(r)

SpecShop == Init /\ [][NextShop]_vars

\* No other order creation is in flight.
OneAtATime(r) == \A r0 \in Reqs \ {r} : ~InFlight(r0)

\* The router with its admin: status updates interleave with carts and with
\* the steps of order creations that arrive one at a time, with the default
\* payment method, all within one tick of the clock.
NextAdmin ==
  \/ \E u \in Users, p \in Products, q \in 1..MaxQty : AddToCart(u, p, q)
  \/ \E r \in Reqs, u \in Users, e \in BOOLEAN, ok \in BOOLEAN, sfx \in Suffixes :
       OneAtATime(r) /\ CreateOrderBegin(r, u, NoText, e, ok, sfx)
  \/ \E r \in Reqs : CreateOrderSave(r)
  \/ \E r \in Reqs : CreateOrderDecrement(r)
  \/ \E r \in Reqs, ok \in BOOLEAN : CreateOrderClear(r, ok)
  \/ \E r \in Reqs : CreateOrderError(r)
  \/ \E c \in Callers, id \in OrderIds, body \in StatusBodies, ok \in BOOLEAN :
       UpdateStatus(c, id, body, ok)

SpecAdmin == Init /\ [][NextAdmin]_vars

\* Orders are created one at a time and without failures, and the admin
\* sets their statuses.
NextOrders ==
  \/ Tick
  \/ \E u \in Users, p \in Products : AddToCart(u, p, 1)
  \/ \E r \in Reqs, u \in Users, sfx \in Suffixes :
       OneAtATime(r) /\ CreateOrderBegin(r, u, NoText, TRUE, TRUE, sfx)
  \/ \E r \in Reqs : CreateOrderSave(r)
  \/ \E r \in Reqs : CreateOrderDecrement(r)
  \/ \E r \in Reqs : CreateOrderClear(r, TRUE)

\* No order creation is in flight.
Quiet == \A r \in Reqs : ~InFlight(r)

\* The reading side of the router: the orders are read by their owners and
\* summed up for the admin.  A read is one query, and the orders it sees
\* while a creation is past its save() are those it sees once the creation
\* is over, so the reads are taken between the creations.
NextRead ==
  \/ NextOrders
  \/ \E id \in OrderIds, body \in StatusBodies \cup StatusOnlyBodies :
       UpdateStatus("admin", id, body, TRUE)
  \/ \E who \in Readers, ok \in BOOLEAN : Quiet /\ GetOrders(who, ok)
  \/ \E who \in Readers, id \in OrderIds, ok \in BOOLEAN : Quiet /\ GetOrder(who, id, ok)
  \/ \E c \in Callers, ok \in BOOLEAN : Quiet /\ AdminStats(c, ok)

SpecRead == Init /\ [][NextRead]_vars

\* The admin's listing: every query of the admin, and the answers to the
\* other callers.
NextList ==
  \/ NextOrders
  \/ \E id \in OrderIds, body \in {b \in StatusBodies : b.status = "shipped"} :
       UpdateStatus("admin", id, body, TRUE)
  \/ \E pg \in QueryPages, lim \in QueryLimits, st \in StatusFilters :
       Quiet /\ AdminAll("admin", pg, lim, st, TRUE)
  \/ \E c \in Callers, ok \in BOOLEAN : Quiet /\ AdminAll(c, Absent, Absent, NoText, ok)

SpecList == Init /\ [][NextList]_vars

\* The browser alone: auth operations and page loads one after the other,
\* every fetch of apiCall coming to any of its outcomes, and signOut at any
\* moment.
NextClient ==
  \/ \E op \in Ops : ClientStart(op)
  \/ ClientLoad
  \/ SignOut
  \/ \E o \in FetchOutcomes : ClientFetch(o)
  \/ ClientWake

SpecClient == Init /\ [][NextClient]_vars

\* The auth operations one after the other, signOut included: none is
\* called while another is in progress.
NextSession ==
  \/ \E op \in Ops : ClientStart(op)
  \/ ClientLoad
  \/ client.pc \in {"idle", "settled"} /\ SignOut
  \/ \E o \in FetchOutcomes : ClientFetch(o)
  \/ ClientWake

SpecSession == Init /\ [][NextSession]_vars

\* apiCall by itself, called with every retryCount up to MaxRetry.
NextApi ==
  \/ \E n \in 0..MaxRetry : ApiCall(n)
  \/ \E o \in FetchOutcomes : ClientFetch(o)
  \/ ClientWake

SpecApi == Init /\ [][NextApi]_vars

\* The two listings of all orders side by side, asked by every caller.
NextOpen ==
  \/ NextOrders
  \/ \E c \in Callers, ok \in BOOLEAN : Quiet /\ AdminAll(c, Absent, Absent, NoText, ok)
  \/ \E c \in Callers, pg \in {Absent, 2}, ok \in BOOLEAN :
       Quiet /\ AdminAllPublic(c, pg, Absent, NoText, ok)

SpecOpen == Init /\ [][NextOpen]_vars

\* The statistics handler query by query, while orders are created and the
\* admin sets their statuses.
NextStats ==
  \/ \E u \in Users, p \in Products : AddToCart(u, p, 1)
  \/ \E r \in Reqs, u \in Users, sfx \in Suffixes :
       OneAtATime(r) /\ CreateOrderBegin(r, u, NoText, TRUE, TRUE, sfx)
  \/ \E r \in Reqs : CreateOrderSave(r)
  \/ \E r \in Reqs : CreateOrderDecrement(r)
  \/ \E r \in Reqs : CreateOrderClear(r, TRUE)
  \/ \E id \in OrderIds, body \in StatusOnlyBodies : UpdateStatus("admin", id, body, TRUE)
  \/ \E c \in Callers : StatsBegin(c)
  \/ \E ok \in BOOLEAN : StatsStep(ok)

SpecStats == Init /\ [][NextStats]_vars

\* A shop that has taken orders before: n orders of one item each, placed
\* at the times ts (in insertion order) with the statuses ss.
PastOrders(n, ts, ss) ==
  [i \in 1..n |->
     LET u == IF i % 2 = 1 THEN "u1" ELSE "u2"
         cart == AddItem(NoCart, "p1", 1)
         read == [cart EXCEPT !.items = Populate(cart.items, InitStock)]
     IN [NewOrder(u, read, "upi", ts[i], "A") EXCEPT
           !.createdAt = <<ts[i]>>, !.status = ss[i]]]

\* The statistics of a shop with up to MaxOrders past orders.
InitRecent ==
  /\ stock = InitStock
  /\ carts = [u \in Users |-> NoCart]
  /\ \E n \in 0..MaxOrders :
       \E ts \in [1..n -> 1..MaxClock], ss \in [1..n -> {"pending", "cancelled"}] :
         /\ \A i \in 1..n, j \in 1..n : i < j => ts[i] <= ts[j]
         /\ orders = PastOrders(n, ts, ss)
  /\ reqs = [r \in Reqs |-> IdleReq]
  /\ now = MaxClock
  /\ adds = 0
  /\ updates = 0
  /\ out = NoResp
  /\ client = IdleClient
  /\ stats = NoStats
  /\ upi = IdleUpi
  /\ app = IdleApp

NextRecent ==
  \/ \E id \in OrderIds, body \in StatusOnlyBodies : UpdateStatus("admin", id, body, TRUE)
  \/ \E c \in Callers, ok \in BOOLEAN : AdminStats(c, ok)

SpecRecent == InitRecent /\ [][NextRecent]_vars

\* The browser with its event loop: a fetch that is awaited settles (the
\* browser answers it or fails it), and a timer that is set fires.
SpecClientFair ==
  /\ Init /\ [][NextClient]_vars
  /\ WF_vars(\E o \in FetchOutcomes : ClientFetch(o))
  /\ WF_vars(ClientWake)

\* What Math.random().toString(36).substr(2, 5).toUpperCase() may come to
\* in two requests: the same characters or others.
SuffixDraws == {"A", "B"}

\* Checkouts whose steps interleave freely, each with its own draw of the
\* random part of the order number.
NextNumbers ==
  \/ Tick
  \/ \E u \in Users, p \in Products : AddToCart(u, p, 1)
  \/ \E r \in Reqs, u \in Users, sfx \in SuffixDraws :
       CreateOrderBegin(r, u, NoText, TRUE, TRUE, sfx)
  \/ \E r \in Reqs : CreateOrderSave(r)
  \/ \E r \in Reqs : CreateOrderDecrement(r)
  \/ \E r \in Reqs : CreateOrderClear(r, TRUE)

SpecNumbers == Init /\ [][NextNumbers]_vars

\* ------------------------------------------------------------------ claims
\* The stored cart of u has a line that asks for more than the live stock.
HasShortLine(u) ==
  \E i \in 1..Len(carts[u].items) :
    stock[carts[u].items[i].product] < carts[u].items[i].quantity

\* C1: an order creation whose cart has a line with quantity above the
\* product's stock is answered 400 "Insufficient stock" naming such a
\* product, and changes no stock, no cart and no order.
C1_InsufficientStockNoEffect ==
  [][\A r \in Reqs, u \in Users, body \in PaymentInputs, sfx \in Suffixes :
       (reqs[r].pc = "idle" /\ reqs'[r].pc # "idle" /\ HasShortLine(u)
          /\ CreateOrderBegin(r, u, body, TRUE, TRUE, sfx))
       => /\ out'.to = r /\ out'.code = 400 /\ out'.message = "Insufficient stock"
          /\ \E i \in 1..Len(carts[u].items) :
               /\ carts[u].items[i].product = out'.product
               /\ stock[out'.product] < carts[u].items[i].quantity
          /\ reqs'[r].pc = "done"
          /\ UNCHANGED <<stock, carts, orders>>]_vars

\* C1 witness: a two-line cart whose first line passes and whose second line
\* fails has just been rejected, naming the second product.
C1_Witness ==
  /\ out.code = 400 /\ out.message = "Insufficient stock"
  /\ \E u \in Users :
       /\ Len(carts[u].items) = 2
       /\ stock[carts[u].items[1].product] >= carts[u].items[1].quantity
       /\ stock[carts[u].items[2].product] < carts[u].items[2].quantity
       /\ out.product = carts[u].items[2].product
  /\ orders = <<>> /\ stock = InitStock

\* C8: an order creation for a user whose cart is missing or has no line is
\* answered 400 "Cart is empty" and changes no stock, no cart and no order.
C8_EmptyCartNoEffect ==
  [][\A r \in Reqs, u \in Users, body \in PaymentInputs, sfx \in Suffixes :
       (reqs[r].pc = "idle" /\ reqs'[r].pc # "idle"
          /\ (~carts[u].exists \/ carts[u].items = <<>>)
          /\ CreateOrderBegin(r, u, body, TRUE, TRUE, sfx))
       => /\ out' = Resp(r, 400, "Cart is empty")
          /\ reqs'[r].pc = "done"
          /\ UNCHANGED <<stock, carts, orders>>]_vars

\* C8 witness: an emptied cart (after an order) and a missing cart exist, and
\* an order creation has just been answered "Cart is empty".
C8_Witness ==
  /\ out.code = 400 /\ out.message = "Cart is empty"
  /\ \A u \in Users : carts[u].items = <<>>
  /\ \E u \in Users : carts[u].exists
  /\ Len(orders) = 1

\* The (product, quantity) pairs of a sequence of lines.
Lines(items) == [i \in 1..Len(items) |-> <<items[i].product, items[i].quantity>>]

\* The step is an iteration of the stock loop of request r.
IsDecrementOf(r) == reqs[r].pc = "decrement" /\ reqs'[r].i = reqs[r].i + 1

\* The step is the order.save() of request r.
IsSaveOf(r) == reqs[r].pc = "save" /\ reqs'[r].pc \in {"decrement", "clear"}

\* Every line of the cart as request r read it passed the stock check.
AllLinesChecked(r) ==
  \A i \in 1..Len(reqs[r].cart.items) :
    reqs[r].cart.items[i].stock >= reqs[r].cart.items[i].quantity

\* C2: every product's stock is never negative, and a stock changes only in
\* the decrement step of an order creation whose every line passed the check.
C2_StockNeverNegative ==
  [][/\ \A p \in Products : stock'[p] >= 0
     /\ (stock' # stock => \E r \in Reqs : IsDecrementOf(r) /\ AllLinesChecked(r))]_vars

\* The quantity request r orders of product p, and the stock of p it read.
QtyOf(r, p) == reqs[r].cart.items[LineIndex(reqs[r].cart.items, p)].quantity
StockRead(r, p) == reqs[r].cart.items[LineIndex(reqs[r].cart.items, p)].stock

\* Requests a and b both ordered p, both read the same stock of p (neither
\* saw a decrement of the other), both persisted their order and both ran
\* their stock loop to its end.
BothSold(a, b, p) ==
  /\ a # b
  /\ reqs[a].pc = "clear" /\ reqs[b].pc = "clear"
  /\ LineIndex(reqs[a].cart.items, p) # 0 /\ LineIndex(reqs[b].cart.items, p) # 0
  /\ StockRead(a, p) = StockRead(b, p)

\* C3: two order creations for the same product that both pass the stock
\* check before either decrements both persist their order and both
\* decrement: the stock ends at the stock read less both quantities,
\* whatever that stock was.
C3_BothDecrementAfterRace ==
  \A a \in Reqs, b \in Reqs, p \in Products :
    BothSold(a, b, p)
    => /\ stock[p] = StockRead(a, p) - QtyOf(a, p) - QtyOf(b, p)
       /\ reqs[a].id # reqs[b].id
       /\ \A r \in {a, b} :
            /\ reqs[r].id \in 1..Len(orders)
            /\ Lines(orders[reqs[r].id].items) = Lines(reqs[r].cart.items)

\* C3 witness: both orders are persisted and the quantity sold exceeds the
\* stock that was available to both checks.
C3_Witness ==
  \E a \in Reqs, b \in Reqs, p \in Products :
    /\ BothSold(a, b, p)
    /\ QtyOf(a, p) + QtyOf(b, p) > StockRead(a, p)
    /\ stock[p] < 0
    /\ Len(orders) = 2

\* C4: the step that answers 201 to an order creation no other request
\* interfered with leaves the user's cart in place with no line, and the
\* stock of each ordered product at the stock read at the start of the
\* request less the quantity of the persisted order line.
C4_SuccessClearsCartAndDecrements ==
  [][\A r \in Reqs :
       (reqs[r].pc = "clear" /\ out'.to = r /\ out'.code = 201 /\ reqs[r].alone)
       => LET o == orders[reqs[r].id]
              read == reqs[r].cart.items
          IN /\ carts'[reqs[r].user].exists
             /\ carts'[reqs[r].user].items = <<>>
             /\ o.items # <<>>
             /\ Len(o.items) = Len(read)
             /\ \A i \in 1..Len(o.items) :
                  stock'[o.items[i].product] = read[i].stock - o.items[i].quantity]_vars

\* C4 witness: the only order creation so far, of a two-line cart, has just
\* been answered 201.
C4_Witness ==
  /\ out.code = 201
  /\ Len(orders) = 1 /\ Len(orders[1].items) = 2
  /\ \A r \in Reqs : reqs[r].pc \in {"idle", "done"}
  /\ \E r \in Reqs : reqs[r].pc = "idle"
  /\ carts[orders[1].user] = ClearedCart(NoCart)
  /\ \A i \in 1..2 :
       stock[orders[1].items[i].product] =
         InitStock[orders[1].items[i].product] - orders[1].items[i].quantity

\* C5: within one order creation the order is persisted only after every
\* line of the cart read at the start passed the stock check and before any
\* stock changes; the persisted lines are the lines checked; each iteration
\* of the stock loop decrements exactly the next persisted line; and the 201
\* comes after the last line, whatever happened to the stored cart.
C5_SameLinesCheckedOrderedDecremented ==
  [][/\ \A r \in Reqs :
          /\ IsSaveOf(r)
              => /\ AllLinesChecked(r)
                 /\ orders' = Append(orders, orders'[Len(orders')])
                 /\ Lines(orders'[Len(orders')].items) = Lines(reqs[r].cart.items)
                 /\ reqs'[r].id = Len(orders')
                 /\ stock' = stock
          /\ IsDecrementOf(r)
              => LET o == orders[reqs[r].id]
                     i == reqs[r].i
                 IN /\ AllLinesChecked(r)
                    /\ Lines(o.items) = Lines(reqs[r].cart.items)
                    /\ i <= Len(o.items)
                    /\ stock' = [stock EXCEPT ![o.items[i].product] = @ - o.items[i].quantity]
          /\ (reqs[r].pc = "clear" /\ out'.to = r /\ out'.code = 201)
              => reqs[r].i = Len(orders[reqs[r].id].items) + 1
     /\ (stock' # stock => \E r \in Reqs : IsDecrementOf(r))]_vars

\* C5 witness: a request has decremented every line of its order while the
\* stored cart of its user no longer holds the lines it read.
C5_Witness ==
  \E r \in Reqs :
    /\ reqs[r].pc = "clear"
    /\ carts[reqs[r].user].items # <<>>
    /\ Lines(carts[reqs[r].user].items) # Lines(reqs[r].cart.items)
    /\ Lines(orders[reqs[r].id].items) = Lines(reqs[r].cart.items)

\* C6: a status update of an order whose status is outside validStatuses is
\* answered 400 and leaves the order unchanged, so every order's status is
\* in the set.
C6_InvalidStatusRejected ==
  [][/\ out'.to = "put"
          => \A c \in Callers, id \in OrderIds, body \in StatusBodies :
               (UpdateStatus(c, id, body, TRUE) /\ Authenticated(c) /\ IsAdmin(c)
                  /\ id \in 1..Len(orders) /\ body.status \notin validStatuses)
               => (out'.code = 400 /\ orders' = orders)
     /\ \A i \in 1..Len(orders') : orders'[i].status \in validStatuses]_vars

\* C7: every persisted order has shipping 50, a tax that is the integer
\* nearest to 5% of its subtotal, and total = subtotal + shipping + tax
\* (subtotal 1000: tax 50, total 1100), status updates included.
C7_OrderTotals ==
  \A i \in 1..Len(orders) :
    LET o == orders[i]
    IN /\ o.shipping = 50
       /\ 20 * o.tax - o.subtotal \in -10..10
       /\ o.total = o.subtotal + o.shipping + o.tax
       /\ o.subtotal = 1000 => (o.tax = 50 /\ o.total = 1100)

\* C7 witness: an order of subtotal 1000 whose status has been updated, and
\* an order whose 5% is no half (subtotal 15, tax 1).
C7_Witness ==
  /\ \E i \in 1..Len(orders) :
       /\ orders[i].subtotal = 1000 /\ orders[i].tax = 50 /\ orders[i].total = 1100
       /\ orders[i].status # "pending"
  /\ \E i \in 1..Len(orders) : orders[i].subtotal = 15 /\ orders[i].tax = 1

\* An order with the four fields a status update may write blanked.
Frozen(o) ==
  [o EXCEPT !.status = NoText, !.trackingNumber = NoText,
            !.estimatedDelivery = NoDate, !.deliveredAt = NoDate]

\* C9: no step removes an order or changes any field of a persisted order
\* other than status, tracking number, estimated delivery and delivery
\* timestamp, and only a status update changes those.
C9_OrdersImmutable ==
  [][/\ Len(orders') >= Len(orders)
     /\ \A i \in 1..Len(orders) :
          /\ Frozen(orders'[i]) = Frozen(orders[i])
          /\ orders'[i] # orders[i] => (out'.to = "put" /\ out'.code = 200)]_vars

\* C9 witness: an order whose status and tracking number were updated, while
\* its user's cart has new lines and the stock has moved on.
C9_Witness ==
  /\ Len(orders) >= 1
  /\ orders[1].status = "shipped" /\ orders[1].trackingNumber = "TRK1"
  /\ carts[orders[1].user].items # <<>>
  /\ Lines(carts[orders[1].user].items) # Lines(orders[1].items)
  /\ stock # InitStock

\* C10: a status update to delivered leaves the order with a delivery
\* timestamp; an update to another status of an order without a delivery
\* timestamp leaves it without one.
C10_DeliveredStampsTimestamp ==
  [][(out'.to = "put" /\ out'.code = 200)
       => \A c \in Callers, id \in OrderIds, body \in StatusBodies :
            UpdateStatus(c, id, body, TRUE)
            => /\ body.status = "delivered" => orders'[id].deliveredAt # NoDate
               /\ (body.status # "delivered" /\ orders[id].deliveredAt = NoDate)
                    => orders'[id].deliveredAt = NoDate]_vars

\* C10 witness: one order was just set to delivered and has a timestamp,
\* another was set to shipped and has none.
C10_Witness ==
  /\ out.to = "put" /\ out.code = 200
  /\ \E i \in 1..Len(orders), j \in 1..Len(orders) :
       /\ orders[i].status = "delivered" /\ orders[i].deliveredAt # NoDate
       /\ orders[j].status = "shipped" /\ orders[j].deliveredAt = NoDate

\* The sum of the totals of the orders whose index is in S.
RECURSIVE SumOfTotals(_)
SumOfTotals(S) ==
  IF S = {} THEN 0
  ELSE LET i == CHOOSE x \in S : TRUE IN orders[i].total + SumOfTotals(S \ {i})

\* C11: the totalRevenue of a statistics response is the sum of total over
\* exactly the orders whose status is confirmed, shipped or delivered, 0 when
\* there is none; orders of any other status add nothing.
C11_RevenueOverFulfilledOrders ==
  (out.to = "stats" /\ out.code = 200) =>
    LET counted == {i \in 1..Len(orders) :
                      orders[i].status \in {"confirmed", "shipped", "delivered"}}
    IN /\ out.data.totalRevenue = SumOfTotals(counted)
       /\ counted = {} => out.data.totalRevenue = 0

\* C11 witness: a statistics response over one order that counts and one
\* that was given a status outside the enumerated set.
C11_Witness ==
  /\ out.to = "stats" /\ out.code = 200
  /\ \E i \in 1..Len(orders), j \in 1..Len(orders) :
       /\ orders[i].status \in {"confirmed", "shipped", "delivered"}
       /\ orders[j].status = "refunded"
       /\ out.data.totalRevenue = orders[i].total /\ orders[i].total > 0

\* The orders with every order of another user than `who` blanked.
OthersBlanked(os, who) ==
  [i \in 1..Len(os) |->
     IF os[i].user = who THEN os[i]
     ELSE [os[i] EXCEPT !.items = <<>>, !.subtotal = 0, !.total = 0, !.status = "cancelled"]]

\* C12: GET /api/orders answers a user with exactly that user's orders, the
\* latest first, and GET /api/orders/:id answers with the order only when it
\* is the caller's and with 404 otherwise; neither answer changes when the
\* orders of the other users do.
C12_OwnOrdersOnly ==
  [][/\ (out'.to = "get" /\ out'.code = 200)
          => \A who \in Users :
               GetOrders(who, TRUE)
               => LET got == out'.data.orders
                  IN /\ \A k \in 1..Len(got) :
                          /\ got[k].id \in 1..Len(orders)
                          /\ got[k].order = orders[got[k].id]
                          /\ got[k].order.user = who
                     /\ \A i \in 1..Len(orders) :
                          orders[i].user = who
                          => Cardinality({k \in 1..Len(got) : got[k].id = i}) = 1
                     /\ \A k \in 1..Len(got), l \in 1..Len(got) :
                          k < l => TimeOf(got[k].order.createdAt) >= TimeOf(got[l].order.createdAt)
                     /\ got = OrdersOfUser(OthersBlanked(orders, who), who)
     /\ out'.to = "get-id"
          => \A who \in Users, id \in OrderIds :
               GetOrder(who, id, TRUE)
               => IF id \in 1..Len(orders) /\ orders[id].user = who
                  THEN /\ out'.code = 200
                       /\ out'.data.orders = <<[id |-> id, order |-> orders[id]]>>
                  ELSE /\ out'.code = 404
                       /\ out'.data.orders = <<>>]_vars

\* C12 witness: two users own one order each; one of them has just been
\* answered with the own order alone.
C12_Witness ==
  /\ Len(orders) = 2 /\ orders[1].user # orders[2].user
  /\ out.to = "get" /\ out.code = 200
  /\ Len(out.data.orders) = 1
  /\ out.data.orders[1].order.user = orders[out.data.orders[1].id].user

\* C12 witness of the second endpoint: a user asked for the order of another
\* user and got 404.
C12_OthersOrderNotFound ==
  /\ Len(orders) = 2 /\ orders[1].user # orders[2].user
  /\ out.to = "get-id" /\ out.code = 404

\* C13: an order changes after its creation only by a status update of the
\* admin naming it; no step that changes the orders is a status update sent
\* without a token or by a user who is no admin; a status update of the
\* admin naming an absent order is answered 404 and adds or changes no order.
C13_StatusChangesByAdminOnly ==
  [][/\ \A i \in 1..Len(orders) :
          orders'[i] # orders[i]
          => \E body \in StatusBodies : UpdateStatus("admin", i, body, TRUE)
     /\ orders' # orders
          => \A c \in {"anon", "user"}, id \in OrderIds, body \in StatusBodies, ok \in BOOLEAN :
               ~UpdateStatus(c, id, body, ok)
     /\ out'.to = "put"
          => \A id \in OrderIds \ (1..Len(orders)), body \in StatusBodies :
               UpdateStatus("admin", id, body, TRUE)
               => (out'.code = 404 /\ orders' = orders)]_vars

\* C13 witness: the admin has changed an order, and a status update naming
\* an order that does not exist has just been answered 404.
C13_Witness ==
  /\ Len(orders) = 1 /\ orders[1].status = "shipped"
  /\ out.to = "put" /\ out.code = 404

\* C13 witness of the refusals: a status update was just refused with 403
\* while an order exists.
C13_Refused ==
  /\ Len(orders) >= 1 /\ out.to = "put" /\ out.code = 403

\* The orders a listing with status filter st matches.
Matching(st) ==
  {i \in 1..Len(orders) : (st # NoText /\ st # "all") => orders[i].status = st}

\* The rank of order i among the orders of S by descending creation time
\* (orders of one creation time in insertion order).
RankIn(S, i) ==
  1 + Cardinality({j \in S :
        \/ TimeOf(orders[j].createdAt) > TimeOf(orders[i].createdAt)
        \/ (TimeOf(orders[j].createdAt) = TimeOf(orders[i].createdAt) /\ j < i)})

Min(a, b) == IF a < b THEN a ELSE b

\* C14: the admin listing of page p with page size L over the N matching
\* orders holds the orders ranked (p-1)*L+1 .. min(p*L, N) by descending
\* creation time, with totalPages = ceil(N/L), totalOrders = N, hasNext iff
\* p*L < N and hasPrev iff p > 1; the pages 1..totalPages hold every matching
\* order exactly once, and hasNext holds iff a later page is not empty.
C14_Pagination ==
  (out.to = "all" /\ out.code = 200)
    => LET p == IF out.query.page = Absent THEN 1 ELSE out.query.page
           L == IF out.query.limit = Absent THEN 50 ELSE out.query.limit
           S == Matching(out.query.status)
           N == Cardinality(S)
           got == out.data.orders
           pgn == out.data.pagination
           PageOf(q) == ListOrders(orders, q, out.query.limit, out.query.status).orders
       IN /\ Len(got) = (IF Min(p * L, N) > (p - 1) * L
                         THEN Min(p * L, N) - (p - 1) * L ELSE 0)
          /\ \A k \in 1..Len(got) :
               /\ got[k].id \in S
               /\ RankIn(S, got[k].id) = (p - 1) * L + k
               /\ got[k].order.orderNumber = orders[got[k].id].orderNumber
               /\ got[k].order.status = orders[got[k].id].status
               /\ got[k].order.total = orders[got[k].id].total
          /\ pgn.currentPage = p
          /\ pgn.totalPages * L >= N /\ (pgn.totalPages - 1) * L < N
          /\ pgn.totalOrders = N
          /\ pgn.hasNext <=> (p * L < N)
          /\ pgn.hasPrev <=> (p > 1)
          /\ \A i \in S :
               Cardinality({<<q, k>> \in (1..pgn.totalPages) \X (1..L) :
                              k <= Len(PageOf(q)) /\ PageOf(q)[k].id = i}) = 1
          /\ pgn.hasNext <=> (\E q \in (p + 1)..(N + 1) : PageOf(q) # <<>>)

\* C14 witness: the second and last page of two orders listed one per page.
C14_Witness ==
  /\ out.to = "all" /\ out.code = 200
  /\ out.data.pagination.totalOrders = 2 /\ out.data.pagination.totalPages = 2
  /\ out.data.pagination.currentPage = 2
  /\ out.data.pagination.hasPrev /\ ~out.data.pagination.hasNext
  /\ Len(out.data.orders) = 1
  /\ TimeOf(orders[1].createdAt) < TimeOf(orders[2].createdAt)
  /\ out.data.orders[1].id = 1

\* Every fetch of the call so far was answered 429.
AllRateLimited == \A k \in 1..Len(client.log) : client.log[k].status = 429

\* The outcome is a response with an OK status and a body that parses.
IsSuccess(o) == o.kind = "response" /\ o.status \in 200..299 /\ o.body # "unparsable"

\* C15: while the server keeps answering 429, apiCall waits 1s, 2s, 4s
\* between its attempts, makes exactly 4 attempts and then fails with the
\* 'Server is busy' error; an attempt that gets a successful response ends
\* the call, which returns the data of that response.
C15_RateLimitBackoff ==
  /\ AllRateLimited
       => /\ Len(client.log) <= 4
          /\ client.waits = SubSeq(<<1000, 2000, 4000>>, 1, Min(Len(client.log), 3))
          /\ Len(client.log) = 4
               => /\ client.pc = "settled" /\ client.api.next = "throw"
                  /\ client.api.error.message = "Server is busy. Please try again in a few minutes."
          /\ Len(client.log) < 4 => client.pc # "settled"
  /\ \A k \in 1..Len(client.log) :
       IsSuccess(client.log[k])
       => /\ k = Len(client.log)
          /\ client.pc = "settled" /\ client.api.next = "return"
          /\ client.api.data = BodyData(client.log[k].body)

\* C15 witness: a call that was answered 429 four times and has failed.
C15_Witness ==
  /\ client.pc = "settled" /\ Len(client.log) = 4 /\ AllRateLimited
  /\ client.waits = <<1000, 2000, 4000>>

\* C15 witness of the second half: a success at the third attempt, after two
\* answers 429.
C15_SuccessAfterRetries ==
  /\ client.pc = "settled" /\ Len(client.log) = 3
  /\ client.log[1].status = 429 /\ client.log[2].status = 429
  /\ IsSuccess(client.log[3]) /\ client.api.next = "return"

\* The outcome is retried by apiCall: a 429 or a TypeError of fetch.
IsTransient(o) == o.kind = "TypeError" \/ o.status = 429

\* The outcome is a failure of another kind: a status that is not OK and not
\* 429, or a body that does not parse.
IsOtherFailure(o) ==
  /\ o.kind = "response"
  /\ \/ (o.status \notin 200..299 /\ o.status # 429)
     \/ (o.status \in 200..299 /\ o.body = "unparsable")

\* C16: apiCall goes on after an attempt only when it was answered 429 or
\* fetch failed with a TypeError; network failures are followed by waits of
\* 1s, 2s, 4s and end the call at the fourth attempt; any other failure is
\* thrown at once, as its own error, with no wait after it (after one
\* attempt and no wait when it is the first).
C16_OnlyTransientRetried ==
  /\ \A k \in 1..(Len(client.log) - 1) : IsTransient(client.log[k])
  /\ (\A k \in 1..Len(client.log) : client.log[k].kind = "TypeError")
       => /\ Len(client.log) <= 4
          /\ client.waits = SubSeq(<<1000, 2000, 4000>>, 1, Min(Len(client.log), 3))
          /\ Len(client.log) = 4 => (client.pc = "settled" /\ client.api.next = "throw")
          /\ Len(client.log) < 4 => client.pc # "settled"
  /\ \A k \in 1..Len(client.log) :
       IsOtherFailure(client.log[k])
       => /\ client.pc = "settled" /\ client.api.next = "throw"
          /\ client.api.error.class \in {"Error", "SyntaxError"}
          /\ Len(client.waits) = Len(client.log) - 1
          /\ k = 1 => (Len(client.log) = 1 /\ client.waits = <<>>)

\* C16 witness: a call that has failed after four network failures.
C16_Witness ==
  /\ client.pc = "settled" /\ Len(client.log) = 4
  /\ \A k \in 1..4 : client.log[k].kind = "TypeError"
  /\ client.waits = <<1000, 2000, 4000>>

\* C16 witness of the other failures: a call that was answered 401 at its
\* first attempt and has thrown.
C16_RejectedAtOnce ==
  /\ client.pc = "settled" /\ Len(client.log) = 1
  /\ client.log[1].status = 401 /\ client.waits = <<>>

\* The messages by which an operation reports a network error.
NetworkErrorMessages ==
  {"Network error. Please try again.", "Network error. Please try again in a few moments."}

\* The server answered the last attempt with a status that is not OK and
\* not 429: it rejected the request.
Rejected ==
  /\ client.pc = "settled" /\ client.log # <<>>
  /\ LET o == client.log[Len(client.log)]
     IN o.kind = "response" /\ o.status \in {400, 401}

\* C17: the message an auth operation returns when the server rejected the
\* request differs from the message it returns when the backend cannot be
\* reached (whatever the browser's TypeError says), and is no network-error
\* message.
C17_RejectionIsNoNetworkError ==
  Rejected
    => /\ \A m \in {"Failed to fetch", "Load failed"} :
            client.result.message
              # OpResult(client.op, Catch(retryCount, retryCount, ErrorOf("TypeError", m))).message
       /\ client.result.message \notin NetworkErrorMessages

\* C18: the order a creation persists has payment status pending, whether
\* the request named cod, upi or no payment method.
C18_PaymentPendingAtCreation ==
  [][Len(orders') = Len(orders) + 1
       => LET o == orders'[Len(orders')]
          IN /\ o.paymentStatus = "pending"
             /\ o.paymentMethod \in {"cod", "upi"}]_vars

\* C18 witness: an order paid on delivery and an order paid by upi, both
\* pending.
C18_Witness ==
  /\ Len(orders) = 2
  /\ orders[1].paymentMethod = "cod" /\ orders[1].paymentStatus = "pending"
  /\ orders[2].paymentMethod = "upi" /\ orders[2].paymentStatus = "pending"

\* C19: when an order creation answers 400, 404 or 500, the request has
\* persisted no order and decremented no stock, and the answering step
\* changes no order, no stock and no cart.
C19_ErrorsLeaveNoEffect ==
  [][\A r \in Reqs :
       (out'.to = r /\ out'.code \in {400, 404, 500})
       => /\ reqs[r].id = 0
          /\ reqs[r].i <= 1
          /\ orders' = orders /\ stock' = stock /\ carts' = carts]_vars

\* The quantity of product p in the lines of an order.
RECURSIVE OrderedQty(_, _)
OrderedQty(items, p) ==
  IF items = <<>> THEN 0
  ELSE (IF Head(items).product = p THEN Head(items).quantity ELSE 0)
       + OrderedQty(Tail(items), p)

\* C20: while the carts have been added to once, so that every checkout
\* finds the same cart content, at most one order is persisted and the stock
\* of each product has gone down by at most the quantity of that content.
C20_OneOrderPerCartContent ==
  adds = 1
    => /\ Len(orders) <= 1
       /\ \A p \in Products :
            InitStock[p] - stock[p]
              <= (IF orders = <<>> THEN 0 ELSE OrderedQty(orders[1].items, p))

\* The units of product p in all persisted orders.
RECURSIVE SoldQty(_, _)
SoldQty(os, p) ==
  IF os = <<>> THEN 0 ELSE OrderedQty(Head(os).items, p) + SoldQty(Tail(os), p)

\* No order creation is in flight and none was answered by the catch block
\* after persisting its order.
Settled == \A r \in Reqs : ~InFlight(r) /\ ~reqs[r].failed

\* C21: whenever no order creation is in flight and none has ended in an
\* error after persisting its order, the stock of every product has gone down
\* by exactly the units of it in the persisted orders, however the checkouts
\* interleaved.
C21_StockConservation ==
  Settled => \A p \in Products : InitStock[p] - stock[p] = SoldQty(orders, p)

\* Two checkouts that interleaved (the second read the stock before the first
\* decremented it) have both gone through, and p1 is oversold.
C21_Witness ==
  /\ Settled
  /\ Len(orders) = 2
  /\ stock["p1"] < 0

\* C22: when an order creation is answered 201, every unit that was in the
\* user's stored cart just before the cart was cleared (what the user added,
\* before or during the checkout) is in the persisted order or still in the
\* cart.
C22_NoCartLineLost ==
  [][\A r \in Reqs :
       (reqs[r].pc = "clear" /\ out'.to = r /\ out'.code = 201)
         => \A p \in Products :
              OrderedQty(carts[reqs[r].user].items, p)
                <= OrderedQty(orders[reqs[r].id].items, p)
                   + OrderedQty(carts'[reqs[r].user].items, p)]_vars

\* C23: a response that carries the orders of all users is never the answer
\* to a caller without admin authentication: no listing route serves such a
\* caller.
C23_AllOrdersForAdminOnly ==
  [][(out'.code = 200 /\ out'.to \in {"all", "all-public"} /\ out'.data.orders # <<>>)
       => \A c \in Callers \ {"admin"}, pg \in QueryPages, ok \in BOOLEAN :
            /\ ~AdminAll(c, Absent, Absent, NoText, ok)
            /\ ~AdminAllPublic(c, pg, Absent, NoText, ok)]_vars

\* The startup verification is over and the last answer of the server was a
\* rejection of the token: a status that is not OK (and not the 429 of a
\* busy server), or an OK response without success.
TokenRejected ==
  /\ client.op = "initialize" /\ client.pc = "settled"
  /\ LET o == client.log[Len(client.log)]
     IN /\ o.kind = "response"
        /\ \/ o.status \in {400, 401}
           \/ (o.status = 200 /\ o.body = "refused")

\* The session is cleared: no token and no user in local storage, and the
\* user and jwt state are null.
SessionCleared ==
  /\ client.token = NoText /\ client.saved = NoText
  /\ client.user = NoText /\ client.jwt = NoText

\* C24: once the startup verification has ended with the server rejecting
\* the token, the session is cleared.
C24_RejectedTokenClearsSession == TokenRejected => SessionCleared

\* C25: from the return of signOut until a signIn or signUp succeeds, the
\* session stays cleared, whatever request was in flight when signOut was
\* called.
C25_SignedOutStaysCleared == client.signedOut => SessionCleared

\* C26: apiCall called with retryCount = n makes at most n + 1 fetch
\* attempts, never waits after its last attempt, and ends by a return or a
\* throw from inside its loop: 'Maximum retry attempts exceeded' is never
\* thrown.
C26_ApiCallTerminates ==
  /\ Len(client.log) <= client.retry + 1
  /\ client.attempt <= client.retry
  /\ client.pc = "wait" => client.attempt < client.retry
  /\ client.pc = "settled"
       => /\ client.api.next \in {"return", "throw"}
          /\ client.api.error.message # "Maximum retry attempts exceeded"

\* apiCall called with retryCount = 2 has made three attempts and thrown.
C26_Witness ==
  /\ client.pc = "settled" /\ client.op = "apiCall"
  /\ client.api.next = "throw"
  /\ Len(client.log) = client.retry + 1
  /\ client.retry = 2

\* C30: between auth operations called one after the other, the jwt state
\* is the token of local storage, and a user state that is set comes with a
\* jwt and with the same user in local storage.
C30_SessionConsistent ==
  client.pc \in {"idle", "settled"}
    => /\ client.jwt = client.token
       /\ client.user # NoText
            => (client.jwt # NoText /\ client.saved = client.user)

\* C27: every stored order has a deliveredAt exactly when its status is
\* "delivered".
C27_DeliveredAtIffDelivered ==
  \A i \in 1..Len(orders) :
    (orders[i].deliveredAt # NoDate) <=> (orders[i].status = "delivered")

\* C28: in every statistics response totalOrders is the sum of the five
\* per-status counts.
C28_CountsAddUp ==
  (out.to = "stats" /\ out.code = 200)
    => out.data.counts.totalOrders
         = out.data.counts.pendingOrders + out.data.counts.confirmedOrders
           + out.data.counts.shippedOrders + out.data.counts.deliveredOrders
           + out.data.counts.cancelledOrders

\* C29: the recentOrders of a statistics response are min(5, N) distinct
\* stored orders, of whatever status, in order of creation time with the
\* newest first, and no order left out was created after one of them.
C29_RecentOrders ==
  (out.to = "stats" /\ out.code = 200)
    => LET got == out.data.recentOrders
           ids == {got[k].id : k \in 1..Len(got)}
       IN /\ Len(got) = Min(5, Len(orders))
          /\ Cardinality(ids) = Len(got)
          /\ \A k \in 1..Len(got) :
               /\ got[k].id \in 1..Len(orders)
               /\ got[k].order = orders[got[k].id]
          /\ \A k \in 1..Len(got), l \in 1..Len(got) :
               k < l => TimeOf(got[k].order.createdAt) >= TimeOf(got[l].order.createdAt)
          /\ \A i \in 1..Len(orders), k \in 1..Len(got) :
               i \notin ids
               => TimeOf(orders[i].createdAt) <= TimeOf(got[k].order.createdAt)

\* A statistics response over six orders, the oldest of them left out, with
\* a cancelled order and a pending one among the five.
C29_Witness ==
  /\ out.to = "stats" /\ out.code = 200
  /\ Len(orders) = 6 /\ Len(out.data.recentOrders) = 5
  /\ TimeOf(orders[1].createdAt) < TimeOf(orders[6].createdAt)
  /\ \A k \in 1..5 : out.data.recentOrders[k].id # 1
  /\ \E k \in 1..5, l \in 1..5 :
       /\ out.data.recentOrders[k].order.status = "cancelled"
       /\ out.data.recentOrders[l].order.status = "pending"

\* C31: whenever loading is true (initializeAuth, signIn or signUp is in
\* progress) it becomes false later, and it is false whenever one of the
\* three has settled, whatever the outcome.
C31_LoadingEnds ==
  /\ client.loading ~> ~client.loading
  /\ [](client.loading
          => (client.pc \in {"fetch", "wait"}
              /\ client.op \in {"signIn", "signUp", "initialize"}))

\* The startup verification has failed for the network after all its
\* retries, and loading is over.
C31_Witness ==
  /\ client.op = "initialize" /\ client.pc = "settled"
  /\ Len(client.log) = 4
  /\ \A k \in 1..4 : client.log[k].kind = "TypeError"
  /\ ~client.loading

\* C32: any two distinct persisted orders have distinct order numbers.
C32_OrderNumbersDistinct ==
  \A i \in 1..Len(orders), j \in 1..Len(orders) :
    i # j => orders[i].orderNumber # orders[j].orderNumber

\* The screenshot selected in the payment form is an image of at most 5 MB.
ScreenshotAccepted ==
  upi.paymentScreenshot # NoFile
    => (upi.paymentScreenshot.type[1] = "image"
        /\ upi.paymentScreenshot.size <= 5 * 1024 * 1024)

\* C33: in the UPI payment form a selected screenshot is always an image of
\* at most 5 MB and has a preview URL exactly while it is selected; a file
\* that is refused leaves the selection as it was; a create-upi-order
\* request leaves only while a screenshot is selected, and carries it;
\* onSuccess is called only for a response that reports success; loading is
\* false once a submission is over.
C33_UpiPaymentForm ==
  /\ [](/\ ScreenshotAccepted
        /\ (upi.previewUrl # NoUrl) <=> (upi.paymentScreenshot # NoFile)
        /\ upi.pc = "idle" => ~upi.loading)
  /\ [][/\ upi'.submits # upi.submits
             => (upi.paymentScreenshot # NoFile /\ upi'.request = upi.paymentScreenshot)
        /\ upi'.onSuccess # upi.onSuccess
             => (upi.pc = "fetch" /\ upi'.last = "success")
        /\ (upi.pc = "fetch" /\ upi'.pc = "idle") => ~upi'.loading
        /\ \A f \in Files :
             (f.type[1] # "image" \/ f.size > 5 * 1024 * 1024) /\ HandleFileSelect(f)
               => /\ upi'.paymentScreenshot = upi.paymentScreenshot
                  /\ upi'.previewUrl = upi.previewUrl]_vars

\* A screenshot of exactly 5 MB was selected and sent, the server refused
\* the payment, and a second submission succeeded; meanwhile a file that is
\* no image was refused.
C33_Witness ==
  /\ upi.paymentScreenshot.size = 5 * 1024 * 1024
  /\ upi.submits = 2 /\ upi.pc = "idle" /\ ~upi.loading
  /\ upi.onSuccess = <<"success">>
  /\ upi.alert = "Please select an image file"

\* C34: the order-success page is entered only through handleOrderComplete,
\* with orderInfo set to the completed order, and it always shows an order;
\* every handleNavigate resets orderInfo and the selected product, and every
\* handleContinueShopping resets orderInfo; the admin dashboard is rendered
\* only while the current user is an admin, and it is rendered again once
\* the effect has run for a user that changed to an admin.
C34_OrderSuccessAndDashboard ==
  /\ [](/\ app.currentPage = "order-success" => app.orderInfo \in CompletedOrders
        /\ DashboardRendered(app) => app.user = "admin")
  /\ [][/\ (app'.currentPage = "order-success" /\ app.currentPage # "order-success")
             => \E o \in CompletedOrders : HandleOrderComplete(o) /\ app'.orderInfo = o
        /\ (\E page \in NavPages : HandleNavigate(page))
             => (app'.orderInfo = NoText /\ app'.selectedProduct = NoText)
        /\ HandleContinueShopping => app'.orderInfo = NoText
        /\ (AdminEffect /\ app.user = "admin") => DashboardRendered(app')
        /\ (AdminEffect /\ app.user # "admin") => ~app'.showAdminDashboard]_vars

\* An order was completed by a customer, the user then changed to an admin
\* and the effect ran: the dashboard is rendered over the order-success page.
C34_Witness ==
  /\ app.currentPage = "order-success"
  /\ app.orderInfo = "order-2"
  /\ app.user = "admin"
  /\ ~app.effect
  /\ DashboardRendered(app)

====
